---- MODULE Spec2Model ----
(***************************************************************************)
(* A model of libocxl's AFU context layer: the context life cycle          *)
(* (src/src/afu.c), interrupt allocation and the event multiplexer         *)
(* (src/src/irq.c), the MMIO region manager (src/src/mmio.c) and the       *)
(* growable buffers (src/src/internal.c).                                  *)
(*                                                                         *)
(* The kernel is the environment: descriptors, mappings, interrupt slots,  *)
(* the epoll registrations, the eventfd counters and the queue of event    *)
(* records of the context descriptor.  Every library call is one action;   *)
(* the system calls it issues are recorded, in order, in `trace`.          *)
(***************************************************************************)
EXTENDS Integers, Sequences, FiniteSets, TLC

(***************************************************************************)
(* Bounds of the model.                                                    *)
(***************************************************************************)
MaxOpens == 1
MaxIrqs == 2
MaxRegions == 2
MaxMmio == 1
MaxCands == 2
MaxReads == 2
MaxSlots == 5
MaxGrowIrqs == 65
MaxPending == 2
MaxQueue == 2
MaxEventCount == 2

(***************************************************************************)
(* Program constants.                                                      *)
(***************************************************************************)
INITIAL_IRQ_COUNT == 64
INITIAL_MMIO_COUNT == 4
UINT16_MAX == 65535
NULL == 0
MAP_FAILED == -1
OCXL_AFU_EVENT_XSL_FAULT_ERROR == 0

VARIABLES
    afu,      \* the fields of struct ocxl_afu of the context at hand
    mem,      \* the handle the caller holds: "none", "live" or "freed"
    heap,     \* struct ocxl_afu blocks allocated and not yet freed
    kern,     \* kernel resources: descriptors, mappings, irq slots, epoll set
    pend,     \* eventfd counters: descriptor -> triggers not yet read
    evq,      \* event records queued on the context descriptor
    trace,    \* system calls issued by the last library call, in order
    ret,      \* the last library call and what it returned
    hist,     \* IRQ numbers returned by the successful ocxl_irq_alloc calls
    opens,    \* number of open calls made so far
    dev,      \* the platform: the host's byte order and the bytes of device memory
    dead,     \* the region handles on which ocxl_mmio_unmap has been called
    thr,      \* the threads inside a library call: where each one is, and its call
    lib       \* the process-wide state of the library and the environment

vars == <<afu, mem, heap, kern, pend, evq, trace, ret, hist, opens, dev, dead, thr, lib>>

Min(S) == CHOOSE x \in S : \A y \in S : x <= y

(***************************************************************************)
(* The kernel.  A new descriptor is the lowest free number (POSIX); a new  *)
(* mapping gets an address that no live mapping has, never NULL: the       *)
(* lowest free one from `base` on, interrupt pages and MMIO regions being  *)
(* placed in areas of their own; a new interrupt slot gets a non-zero      *)
(* offset that no live slot has.                                           *)
(***************************************************************************)
NewFd(k) == Min({n \in 3..(3 + Cardinality(k.fds)) : n \notin k.fds})
IrqPages == 1
MmioPages == 101
NewAddr(k, base) == Min({a \in base..(base + Cardinality(k.maps)) : a \notin k.maps})
NewOffset(k) == Min({o \in 1..(1 + Cardinality(k.irqs)) : o \notin k.irqs})

KernInit == [fds |-> {}, maps |-> {}, irqs |-> {}, epoll |-> {}]

\* The state a library call threads through its steps.
St(a, k, t) == [afu |-> a, kern |-> k, trace |-> t]

sys_open(s) ==
    LET fd == NewFd(s.kern)
    IN  [s EXCEPT !.kern.fds = @ \cup {fd}, !.trace = Append(@, <<"open", fd, TRUE>>)]

\* close(2): closing a descriptor also drops it from the epoll set.
sys_close(s, fd) ==
    [s EXCEPT !.kern.fds = @ \ {fd},
              !.kern.epoll = {r \in @ : r.fd # fd},
              !.trace = Append(@, <<"close", fd, fd \in s.kern.fds>>)]

sys_mmap(s, base) ==
    LET a == NewAddr(s.kern, base)
    IN  [s EXCEPT !.kern.maps = @ \cup {a}, !.trace = Append(@, <<"mmap", a, TRUE>>)]

sys_munmap(s, addr) ==
    [s EXCEPT !.kern.maps = @ \ {addr},
              !.trace = Append(@, <<"munmap", addr, addr \in s.kern.maps>>)]

\* ioctl(fd, OCXL_IOCTL_IRQ_FREE, &offset); the third field records whether
\* the descriptor the request is issued on is open.
sys_irq_free(s, fd, off) ==
    [s EXCEPT !.kern.irqs = IF fd \in s.kern.fds THEN @ \ {off} ELSE @,
              !.trace = Append(@, <<"irq_free", off, fd \in s.kern.fds>>)]

sys_epoll_add(s, fd, ptr) ==
    [s EXCEPT !.kern.epoll = @ \cup {[fd |-> fd, ptr |-> ptr]},
              !.trace = Append(@, <<"epoll_add", fd, TRUE>>)]

(***************************************************************************)
(* struct ocxl_afu after afu_init.  irqs and mmios hold the slots written  *)
(* so far; the buffers have irq_max_count and mmio_max_count slots, the    *)
(* ones past the written ones uninitialised.  irqs_buf and mmios_buf       *)
(* identify the heap block (NULL when none).  The fields of the structure  *)
(* that afu_init does not write (mmios, the region and interrupt           *)
(* capacities, attached) start as NULL, 0 and false.                       *)
(***************************************************************************)
afu_init ==
    [fd |-> -1, irq_fd |-> -1, epoll_fd |-> -1, global_mmio_fd |-> -1,
     epoll_event_count |-> 0,
     global_len |-> 0, pp_len |-> 0,
     irqs_buf |-> NULL, irqs |-> <<>>, irq_count |-> 0, irq_max_count |-> 0,
     mmios_buf |-> NULL, mmios |-> <<>>, mmio_count |-> 0, mmio_max_count |-> 0,
     attached |-> FALSE, device_path |-> 0,
     verbose_errors |-> FALSE, tracing |-> FALSE]

\* The byte orders a host can have; device memory, all zero at the start.
Hosts == {"little", "big"}
DevBytes == [i \in 1..16 |-> 0]
Threads == {1, 2, 3}

\* internal.c: the globals as they are initialised, and the environment of
\* the process: the value of each variable libocxl_init looks at.
EnvVars == {"LIBOCXL_INFO", "LIBOCXL_TRACE_ALL", "LIBOCXL_VERBOSE_ERRORS_ALL"}
EnvValues == {"unset", "YES", "1", "0"}

lib_init(env) ==
    [libocxl_inited |-> FALSE, libocxl_inited_mutex |-> 0,
     verbose_errors |-> FALSE, verbose_errors_all |-> FALSE,
     tracing |-> FALSE, tracing_all |-> FALSE,
     env |-> env, inspections |-> 0]

InitWith(host, env) ==
    /\ afu = afu_init
    /\ mem = "none"
    /\ heap = 0
    /\ kern = KernInit
    /\ pend = << >>
    /\ evq = << >>
    /\ trace = << >>
    /\ ret = [op |-> "none", rc |-> "OCXL_OK"]
    /\ hist = << >>
    /\ opens = 0
    /\ dev = [host |-> host, bytes |-> DevBytes]
    /\ dead = {}
    /\ thr = [t \in Threads |-> [pc |-> "idle"]]
    /\ lib = lib_init(env)

InitOn(host) == InitWith(host, [v \in EnvVars |-> "unset"])

Init == InitOn("little")

(***************************************************************************)
(* irq.c: irq_dealloc.  Slot i of the buffer is irqs[i + 1].               *)
(***************************************************************************)
irq_dealloc(s, i) ==
    LET irq == s.afu.irqs[i + 1]
        s1 == IF irq.addr # NULL
              THEN [sys_munmap(s, irq.addr) EXCEPT !.afu.irqs[i + 1].addr = NULL]
              ELSE s
        s2 == IF irq.irq_offset # 0
              THEN [sys_irq_free(s1, s1.afu.fd, irq.irq_offset)
                        EXCEPT !.afu.irqs[i + 1].irq_offset = 0]
              ELSE s1
        s3 == IF irq.eventfd >= 0
              THEN [sys_close(s2, irq.eventfd) EXCEPT !.afu.irqs[i + 1].eventfd = -1]
              ELSE s2
    IN  [s3 EXCEPT !.afu.irqs[i + 1].info = NULL]

RECURSIVE dealloc_irqs(_, _)
\* afu.c: the loop of ocxl_afu_close over irq 0 .. irq_count - 1, from slot i on.
dealloc_irqs(s, i) ==
    IF i >= s.afu.irq_count THEN s ELSE dealloc_irqs(irq_dealloc(s, i), i + 1)

(***************************************************************************)
(* mmio.c: ocxl_mmio_unmap of the region in slot j.                        *)
(***************************************************************************)
ocxl_mmio_unmap(s, j) ==
    IF s.afu.mmios[j + 1].start = NULL
    THEN s
    ELSE [sys_munmap(s, s.afu.mmios[j + 1].start) EXCEPT !.afu.mmios[j + 1].start = NULL]

RECURSIVE unmap_regions(_, _)
unmap_regions(s, j) ==
    IF j >= s.afu.mmio_count THEN s ELSE unmap_regions(ocxl_mmio_unmap(s, j), j + 1)

\* The two unmap calls that open ocxl_afu_close: every region still mapped is
\* unmapped and the global MMIO descriptor is closed.
close_unmap(s) ==
    LET s1 == unmap_regions(s, 0)
    IN  IF s1.afu.global_mmio_fd >= 0
        THEN [sys_close(s1, s1.afu.global_mmio_fd) EXCEPT !.afu.global_mmio_fd = -1]
        ELSE s1

\* free(3); the third field records whether the block was allocated.
sys_free(s, what, valid) == [s EXCEPT !.trace = Append(@, <<"free", what, valid>>)]

\* A teardown that closes the context descriptor first.
close_teardown_fd_first(s, live) ==
    LET s0 == sys_close(s, s.afu.fd)
        s1 == close_unmap(s0)
        s2 == IF s1.afu.irqs_buf # NULL
              THEN [sys_free(dealloc_irqs(s1, 0), "irqs", live)
                        EXCEPT !.afu.irqs_buf = NULL, !.afu.irqs = << >>,
                               !.afu.irq_count = 0, !.afu.irq_max_count = 0]
              ELSE s1
        s3 == IF s2.afu.epoll_event_count > 0
              THEN [sys_free(s2, "epoll_events", live) EXCEPT !.afu.epoll_event_count = 0]
              ELSE s2
    IN  sys_free([s3 EXCEPT !.afu.fd = -1], "afu", live)

(***************************************************************************)
(* afu.c: the teardown of ocxl_afu_close, after the fd < 0 test: unmap,    *)
(* deallocate the interrupts, free the buffers, close the context          *)
(* descriptor, free the handle.                                            *)
(***************************************************************************)
close_teardown(s, live) ==
    LET s1 == close_unmap(s)
        s2 == IF s1.afu.irqs_buf # NULL
              THEN [sys_free(dealloc_irqs(s1, 0), "irqs", live)
                        EXCEPT !.afu.irqs_buf = NULL, !.afu.irqs = << >>,
                               !.afu.irq_count = 0, !.afu.irq_max_count = 0]
              ELSE s1
        s3 == IF s2.afu.epoll_event_count > 0
              THEN [sys_free(s2, "epoll_events", live) EXCEPT !.afu.epoll_event_count = 0]
              ELSE s2
        s4 == [sys_close(s3, s3.afu.fd) EXCEPT !.afu.fd = -1]
    IN  sys_free(s4, "afu", live)

\* The eventfd counters of the descriptors that are still open.
PendOf(p, k) == [f \in (DOMAIN p) \cap k.fds |-> p[f]]

(***************************************************************************)
(* afu.c: ocxl_afu_close on the handle the caller holds.  On a live handle *)
(* fd is read from the structure.  The call ends with free(my_afu); a call *)
(* on the handle after that reads fd from freed memory, and finds          *)
(* `freed_fd`: the -1 the first call stored, or what the allocator or a    *)
(* later owner of the block wrote there.                                   *)
(***************************************************************************)
ocxl_afu_close(freed_fd) ==
    /\ mem \in {"live", "freed"}
    /\ mem = "live" => freed_fd = -1
    /\ LET fdread == IF mem = "live" THEN afu.fd ELSE freed_fd
           s0 == St([afu EXCEPT !.fd = fdread], kern, << >>)
       IN  IF fdread < 0
           THEN /\ ret' = [op |-> "close", rc |-> "OCXL_ALREADY_DONE", live |-> mem = "live",
                            fd |-> fdread]
                /\ trace' = << >>
                /\ UNCHANGED <<afu, mem, heap, kern, pend, evq>>
           ELSE LET s == close_teardown(s0, mem = "live")
                IN  /\ ret' = [op |-> "close", rc |-> "OCXL_OK", live |-> mem = "live",
                                fd |-> fdread]
                    /\ trace' = s.trace
                    /\ afu' = s.afu
                    /\ kern' = s.kern
                    /\ pend' = PendOf(pend, s.kern)
                    /\ evq' = IF mem = "live" THEN << >> ELSE evq
                    /\ mem' = "freed"
                    /\ heap' = IF mem = "live" THEN heap - 1 ELSE heap
    /\ UNCHANGED <<hist, lib, thr, opens, dev, dead>>

(***************************************************************************)
(* afu.c: afu_open.  `o` is what the kernel answers: "ok", or the step     *)
(* that fails.  The result is the state and the error code.                *)
(***************************************************************************)
\* afu.c, afu_init: the epoll source of the context descriptor (fd_info of the
\* structure, irq = NULL); the source of an interrupt is the slot it lives in.
AfuSource == [buf |-> NULL, idx |-> -1]

OpenOutcomes == {"ok", "enospc", "nodev", "irq_open_fail", "epoll_create_fail", "epoll_ctl_fail"}

afu_open(s, o) ==
    IF s.afu.fd # -1 THEN [s |-> s, rc |-> "OCXL_ALREADY_DONE"]
    ELSE IF o = "enospc" THEN [s |-> s, rc |-> "OCXL_NO_MORE_CONTEXTS"]
    ELSE IF o = "nodev" THEN [s |-> s, rc |-> "OCXL_NO_DEV"]
    ELSE
    LET fd == NewFd(s.kern)
        s1 == [sys_open(s) EXCEPT !.afu.fd = fd]
    IN  IF o = "irq_open_fail"
        THEN [s |-> sys_close(s1, s1.afu.fd), rc |-> "OCXL_NO_DEV"]
        ELSE
        LET ifd == NewFd(s1.kern)
            s2 == [sys_open(s1) EXCEPT !.afu.irq_fd = ifd]
        IN  IF o = "epoll_create_fail"
            THEN [s |-> s2, rc |-> "OCXL_NO_DEV"]
            ELSE
            LET efd == NewFd(s2.kern)
                s3 == [sys_open(s2) EXCEPT !.afu.epoll_fd = efd]
            IN  IF o = "epoll_ctl_fail"
                THEN [s |-> s3, rc |-> "OCXL_NO_DEV"]
                ELSE [s |-> sys_epoll_add(s3, s3.afu.fd, AfuSource), rc |-> "OCXL_OK"]

\* mmio.c: global_mmio_open, called as part of a successful open.
global_mmio_open(s) ==
    LET fd == NewFd(s.kern)
    IN  [sys_open(s) EXCEPT !.afu.global_mmio_fd = fd]

(***************************************************************************)
(* afu.c: get_afu_by_path.  `m` is "nomem" (malloc fails), "nodev" (stat   *)
(* or the metadata fails) or "ok"; glen is the global MMIO size read from  *)
(* sysfs.  The result: the structure, whether a block was allocated, rc.   *)
(***************************************************************************)
PathOutcomes == {"ok", "nomem", "nodev"}
GlobalLens == {0, 16}
PerPasidLen == 8

\* The handle the caller gets: the address of the structure, or
\* OCXL_INVALID_AFU.
OCXL_INVALID_AFU == NULL
AfuBlock == 1

get_afu_by_path(path, m, glen) ==
    IF m = "nomem"
    THEN [afu |-> afu_init, alloc |-> FALSE, rc |-> "OCXL_NO_MEM", handle |-> OCXL_INVALID_AFU]
    ELSE IF m = "nodev"
    THEN [afu |-> afu_init, alloc |-> TRUE, rc |-> "OCXL_NO_DEV", handle |-> OCXL_INVALID_AFU]
    ELSE [afu |-> [afu_init EXCEPT !.global_len = glen, !.pp_len = PerPasidLen,
                                   !.device_path = path],
          alloc |-> TRUE, rc |-> "OCXL_OK", handle |-> AfuBlock]

\* A failing open that leaves the handle it was given in *afu.
failed_handle_kept(h) == h

\* afu.c, ocxl_afu_open_from_dev: *afu = OCXL_INVALID_AFU before a failing
\* return.
failed_handle(h) == OCXL_INVALID_AFU

(***************************************************************************)
(* afu.c: ocxl_afu_open_from_dev on the kernel state k, after the system   *)
(* calls t.  A failed afu_open is followed by ocxl_afu_close on the new    *)
(* handle, which frees it only if fd >= 0.  The result: the structure,     *)
(* the kernel state, the system calls, rc, the handle left in *afu, the    *)
(* fd field when afu_open returned, and the number of blocks the call      *)
(* leaves allocated.                                                       *)
(***************************************************************************)
open_from_dev(k, t, path, m, glen, o) ==
    LET g == get_afu_by_path(path, m, glen)
    IN  IF g.rc # "OCXL_OK"
        THEN [afu |-> g.afu, kern |-> k, trace |-> t, rc |-> g.rc,
              handle |-> failed_handle(g.handle), fd |-> g.afu.fd,
              heap |-> IF g.alloc THEN 1 ELSE 0]
        ELSE LET r == afu_open(St(g.afu, k, t), o)
             IN  IF r.rc # "OCXL_OK"
                 THEN LET c == IF r.s.afu.fd < 0 THEN r.s ELSE close_teardown(r.s, TRUE)
                      IN  [afu |-> c.afu, kern |-> c.kern, trace |-> c.trace, rc |-> r.rc,
                           handle |-> failed_handle(g.handle), fd |-> r.s.afu.fd,
                           heap |-> IF r.s.afu.fd < 0 THEN 1 ELSE 0]
                 ELSE LET s == global_mmio_open(r.s)
                      IN  [afu |-> s.afu, kern |-> s.kern, trace |-> s.trace, rc |-> "OCXL_OK",
                           handle |-> g.handle, fd |-> s.afu.fd, heap |-> 1]

\* ocxl_afu_open_from_dev called by the application, on the device 1.
ocxl_afu_open_from_dev(m, glen, o) ==
    /\ mem = "none"
    /\ opens < MaxOpens
    /\ opens' = opens + 1
    /\ UNCHANGED <<dev, dead>>
    /\ LET r == open_from_dev(kern, << >>, 1, m, glen, o)
       IN  /\ ret' = [op |-> "open", rc |-> r.rc, handle |-> r.handle, fd |-> r.fd,
                      leaked |-> r.heap, fds_left |-> r.kern.fds \ kern.fds]
           /\ heap' = heap + r.heap
           /\ trace' = r.trace
           /\ kern' = r.kern
           /\ afu' = IF r.handle # OCXL_INVALID_AFU THEN r.afu ELSE afu
           /\ mem' = IF r.handle # OCXL_INVALID_AFU THEN "live" ELSE mem
           /\ UNCHANGED <<pend, evq, hist, lib, thr>>

(***************************************************************************)
(* afu.c: ocxl_afu_open_specific (ocxl_afu_open is the call with no        *)
(* physical function and afu_index -1).  `glob` is what glob(3) answers;   *)
(* on a match, cands are the devices it lists, in order: for each, what    *)
(* get_afu_by_path and afu_open will meet.  Device n of the list has the   *)
(* path n.  `tried` records what ocxl_afu_open_from_dev returned for each  *)
(* candidate tried.                                                        *)
(***************************************************************************)
GlobOutcomes == {"match", "nomatch", "nospace", "error"}
Candidates ==
    {c \in [m : PathOutcomes, o : OpenOutcomes] : c.m # "ok" => c.o = "ok"}
CandidateLists == UNION {[1..n -> Candidates] : n \in 1..MaxCands}

\* What the loop holds after ocxl_afu_open_from_dev returned r for a candidate.
tried_candidate(c, r) ==
    [afu |-> r.afu, kern |-> r.kern, trace |-> r.trace, rc |-> r.rc,
     handle |-> r.handle, heap |-> c.heap + r.heap, tried |-> Append(c.tried, r.rc)]

\* The candidate after which the loop ends.
loop_ends_any(c) == c.rc # "OCXL_OK"
loop_ends_failed(c) == TRUE
loop_ends(c) == c.rc # "OCXL_NO_MORE_CONTEXTS"

RECURSIVE open_specific_loop(_, _, _)
\* The for loop over the devices listed, from device n on.
open_specific_loop(c, cands, n) ==
    IF n > Len(cands) \/ (n > 1 /\ loop_ends(c)) THEN c
    ELSE open_specific_loop(
             tried_candidate(c, open_from_dev(c.kern, c.trace, n, cands[n].m,
                                              Min(GlobalLens \ {0}), cands[n].o)),
             cands, n + 1)

open_specific(k, glob, cands) ==
    LET c0 == [afu |-> afu_init, kern |-> k, trace |-> << >>, rc |-> "OCXL_INTERNAL_ERROR",
               handle |-> OCXL_INVALID_AFU, heap |-> 0, tried |-> << >>]
    IN  IF glob = "nospace" THEN [c0 EXCEPT !.rc = "OCXL_NO_MEM"]
        ELSE IF glob = "nomatch" THEN [c0 EXCEPT !.rc = "OCXL_NO_DEV"]
        ELSE IF glob = "error" THEN c0
        ELSE open_specific_loop(c0, cands, 1)

\* ocxl_afu_open_specific / ocxl_afu_open called by the application.
ocxl_afu_open_specific(glob, cands) ==
    /\ mem = "none"
    /\ opens < MaxOpens
    /\ opens' = opens + 1
    /\ \E r \in {open_specific(kern, glob, cands)} :
           /\ ret' = [op |-> "open_specific", rc |-> r.rc, handle |-> r.handle,
                      glob |-> glob, cands |-> cands, tried |-> r.tried,
                      path |-> r.afu.device_path,
                      leaked |-> r.heap, fds_left |-> r.kern.fds \ kern.fds]
           /\ heap' = heap + r.heap
           /\ trace' = r.trace
           /\ kern' = r.kern
           /\ afu' = IF r.handle # OCXL_INVALID_AFU THEN r.afu ELSE afu
           /\ mem' = IF r.handle # OCXL_INVALID_AFU THEN "live" ELSE mem
    /\ UNCHANGED <<pend, evq, hist, lib, thr, dev, dead>>

(***************************************************************************)
(* afu.c: ocxl_afu_attach.  `ok` is whether the kernel accepts the ATTACH  *)
(* request.                                                                *)
(***************************************************************************)
ocxl_afu_attach(ok) ==
    /\ mem = "live"
    /\ IF afu.fd = -1
       THEN ret' = [op |-> "attach", rc |-> "OCXL_NO_CONTEXT"] /\ trace' = << >>
       ELSE /\ trace' = <<(<<"ioctl_attach", afu.fd, afu.fd \in kern.fds>>)>>
            /\ ret' = [op |-> "attach", rc |-> IF ok THEN "OCXL_OK" ELSE "OCXL_INTERNAL_ERROR"]
    /\ UNCHANGED <<afu, mem, heap, kern, pend, evq, hist, lib, thr, opens, dev, dead>>

(***************************************************************************)
(* internal.c: grow_buffer.  `g` is what realloc does: "nomem", "inplace"  *)
(* (the block grows where it is) or "moved" (a new block, the old one      *)
(* freed).  The new count is stored in a uint16_t.                         *)
(***************************************************************************)
GrowOutcomes == {"nomem", "inplace", "moved"}

grow_buffer(buf, count, initial_count, g) ==
    LET new_count == IF count > 0 THEN 2 * count ELSE initial_count
    IN  IF g = "nomem"
        THEN [rc |-> "OCXL_NO_MEM", buf |-> buf, count |-> count]
        ELSE [rc |-> "OCXL_OK",
              buf |-> IF g = "moved" \/ buf = NULL THEN buf + 1 ELSE buf,
              count |-> new_count % (UINT16_MAX + 1)]

(***************************************************************************)
(* irq.c: irq_allocate on slot i.  `f` is the sub-step the kernel fails:   *)
(* "none", "eventfd", "irq_alloc", "set_fd", "mmap" or "epoll_ctl".        *)
(***************************************************************************)
IrqFailSteps == {"none", "eventfd", "irq_alloc", "set_fd", "mmap", "epoll_ctl"}

SetSlot(s, i, slot) == [s EXCEPT !.afu.irqs = SubSeq(@, 1, i) \o <<slot>>]

irq_allocate(s, i, info, f) ==
    LET self == [buf |-> s.afu.irqs_buf, idx |-> i]
        slot0 == [irq_offset |-> 0, eventfd |-> -1, irq_number |-> UINT16_MAX,
                  addr |-> NULL, info |-> info, self |-> self]
        s0 == SetSlot(s, i, slot0)
    IN  IF f = "eventfd"
        THEN [s |-> irq_dealloc(s0, i), rc |-> "OCXL_INTERNAL_ERROR"]
        ELSE
        LET fd == NewFd(s0.kern)
            s1 == [s0 EXCEPT !.kern.fds = @ \cup {fd},
                             !.trace = Append(@, <<"eventfd", fd, TRUE>>),
                             !.afu.irqs[i + 1].eventfd = fd]
        IN  IF f = "irq_alloc"
            THEN [s |-> irq_dealloc(s1, i), rc |-> "OCXL_INTERNAL_ERROR"]
            ELSE
            LET off == NewOffset(s1.kern)
                s2 == [s1 EXCEPT !.kern.irqs = @ \cup {off},
                                 !.trace = Append(@, <<"irq_alloc", off, s1.afu.fd \in s1.kern.fds>>),
                                 !.afu.irqs[i + 1].irq_offset = off]
            IN  IF f = "set_fd"
                THEN [s |-> irq_dealloc(s2, i), rc |-> "OCXL_INTERNAL_ERROR"]
                ELSE IF f = "mmap"
                THEN [s |-> irq_dealloc([s2 EXCEPT !.afu.irqs[i + 1].addr = MAP_FAILED], i),
                      rc |-> "OCXL_INTERNAL_ERROR"]
                ELSE
                LET a == NewAddr(s2.kern, IrqPages)
                    s3 == [sys_mmap(s2, IrqPages) EXCEPT !.afu.irqs[i + 1].addr = a]
                IN  IF f = "epoll_ctl"
                    THEN [s |-> irq_dealloc(s3, i), rc |-> "OCXL_INTERNAL_ERROR"]
                    ELSE [s |-> sys_epoll_add(s3, fd, self), rc |-> "OCXL_OK"]

\* An allocation that does not advance irq_count.
irq_alloc_no_increment(s, info, g, f) ==
    LET a == s.afu
        grown == IF a.irq_count = a.irq_max_count
                 THEN grow_buffer(a.irqs_buf, a.irq_max_count, INITIAL_IRQ_COUNT, g)
                 ELSE [rc |-> "OCXL_OK", buf |-> a.irqs_buf, count |-> a.irq_max_count]
    IN  IF grown.rc # "OCXL_OK"
        THEN [s |-> s, rc |-> grown.rc, irq |-> -1]
        ELSE
        LET s1 == [s EXCEPT !.afu.irqs_buf = grown.buf, !.afu.irq_max_count = grown.count]
            r == irq_allocate(s1, a.irq_count, info, f)
        IN  IF r.rc # "OCXL_OK"
            THEN [s |-> r.s, rc |-> r.rc, irq |-> -1]
            ELSE [s |-> [r.s EXCEPT !.afu.irqs[a.irq_count + 1].irq_number = a.irq_count],
                  rc |-> "OCXL_OK", irq |-> a.irq_count]

(***************************************************************************)
(* irq.c: ocxl_irq_alloc.  The result: the state, rc and the IRQ number    *)
(* stored in *irq (-1 when nothing was stored).                            *)
(***************************************************************************)
irq_alloc(s, info, g, f) ==
    LET a == s.afu
        grown == IF a.irq_count = a.irq_max_count
                 THEN grow_buffer(a.irqs_buf, a.irq_max_count, INITIAL_IRQ_COUNT, g)
                 ELSE [rc |-> "OCXL_OK", buf |-> a.irqs_buf, count |-> a.irq_max_count]
    IN  IF grown.rc # "OCXL_OK"
        THEN [s |-> s, rc |-> grown.rc, irq |-> -1]
        ELSE
        LET s1 == [s EXCEPT !.afu.irqs_buf = grown.buf, !.afu.irq_max_count = grown.count]
            r == irq_allocate(s1, a.irq_count, info, f)
        IN  IF r.rc # "OCXL_OK"
            THEN [s |-> r.s, rc |-> r.rc, irq |-> -1]
            ELSE [s |-> [r.s EXCEPT !.afu.irqs[a.irq_count + 1].irq_number = a.irq_count,
                                    !.afu.irq_count = (a.irq_count + 1) % (UINT16_MAX + 1)],
                  rc |-> "OCXL_OK", irq |-> a.irq_count]

Infos == {7}

ocxl_irq_alloc(info, g, f) ==
    /\ mem = "live"
    /\ (afu.irq_count # afu.irq_max_count) => g = "inplace"
    /\ (afu.irqs_buf = NULL) => g # "inplace"
    /\ g = "nomem" => f = "none"
    /\ LET r == irq_alloc(St(afu, kern, << >>), info, g, f)
       IN  /\ afu' = r.s.afu
           /\ kern' = r.s.kern
           /\ trace' = r.s.trace
           /\ ret' = [op |-> "irq_alloc", rc |-> r.rc, irq |-> r.irq, step |-> f]
           /\ hist' = IF r.rc = "OCXL_OK" THEN Append(hist, r.irq) ELSE hist
           /\ pend' = IF r.rc = "OCXL_OK"
                      THEN [x \in (DOMAIN pend) \cup {r.s.afu.irqs[r.irq + 1].eventfd} |->
                                IF x \in DOMAIN pend THEN pend[x] ELSE 0]
                      ELSE pend
    /\ UNCHANGED <<mem, heap, evq, opens, dev, dead, thr, lib>>

(***************************************************************************)
(* irq.c: ocxl_irq_get_handle and ocxl_irq_get_fd.  The guard lets         *)
(* irq = irq_count through; the slot then read is a slot a failed          *)
(* allocation left behind (reset by irq_dealloc), or memory that was never *)
(* written or lies outside the buffer, whose content `junk` is arbitrary.  *)
(* The result: the value returned and the slot read (-1: none).            *)
(***************************************************************************)
Junk == {0, -1, 5}

ocxl_irq_get_handle(a, irq, junk) ==
    IF irq > a.irq_count THEN [val |-> 0, read |-> -1]
    ELSE IF irq < Len(a.irqs) THEN [val |-> a.irqs[irq + 1].addr, read |-> irq]
    ELSE [val |-> junk, read |-> irq]

ocxl_irq_get_fd(a, irq, junk) ==
    IF irq > a.irq_count THEN [val |-> -1, read |-> -1]
    ELSE IF irq < Len(a.irqs) THEN [val |-> a.irqs[irq + 1].eventfd, read |-> irq]
    ELSE [val |-> junk, read |-> irq]

irq_accessor(which, irq, junk) ==
    /\ mem = "live"
    /\ (irq > afu.irq_count \/ irq < Len(afu.irqs)) => junk = 0
    /\ LET r == IF which = "get_handle" THEN ocxl_irq_get_handle(afu, irq, junk)
                ELSE ocxl_irq_get_fd(afu, irq, junk)
       IN  ret' = [op |-> which, rc |-> "OCXL_OK", irq |-> irq, val |-> r.val, read |-> r.read]
    /\ trace' = << >>
    /\ UNCHANGED <<afu, mem, heap, kern, pend, evq, hist, lib, thr, opens, dev, dead>>

(***************************************************************************)
(* internal.c: errmsg; libocxl_internal.h: TRACE.  `a` is <<afu>>, or << >> *)
(* for a NULL afu.  The result of errmsg: the calls of the error handler   *)
(* it makes, entries of the record of the library call next to the system  *)
(* calls.                                                                  *)
(***************************************************************************)
\* An errmsg that calls the handler whatever the flags say.
errmsg_always(a, error) == << <<"error_handler", error, TRUE>> >>

errmsg(a, error) ==
    IF a # << >>
    THEN IF a[1].verbose_errors
         THEN << <<"afu_error_handler", error, TRUE>> >>
         ELSE << >>
    ELSE IF lib.verbose_errors
         THEN << <<"error_handler", error, TRUE>> >>
         ELSE << >>

\* errmsg(afu, error, ...) in a library call on the context of s.
afu_errmsg(s, error) == [s EXCEPT !.trace = @ \o errmsg(<<s.afu>>, error)]

TRACE(s) ==
    IF s.afu.tracing THEN [s EXCEPT !.trace = Append(@, <<"trace_message", 0, TRUE>>)] ELSE s

\* A registration that never looks for a slot whose region was unmapped.
register_mmio_append(s, addr, size, type, g) ==
    LET a == s.afu
        region == [start |-> addr, length |-> size, type |-> type]
    IN  IF a.mmio_count = a.mmio_max_count /\ g = "nomem"
        THEN [s |-> s, rc |-> "OCXL_NO_MEM", slot |-> -1]
        ELSE [s |-> [s EXCEPT !.afu.mmios_buf = IF g = "moved" THEN @ + 1 ELSE @,
                              !.afu.mmio_max_count = IF a.mmio_count = @
                                                     THEN IF @ > 0 THEN 2 * @
                                                          ELSE INITIAL_MMIO_COUNT
                                                     ELSE @,
                              !.afu.mmio_count = a.mmio_count + 1,
                              !.afu.mmios = Append(SubSeq(@, 1, a.mmio_count), region)],
              rc |-> "OCXL_OK", slot |-> a.mmio_count]

(***************************************************************************)
(* mmio.c: register_mmio.  The result: the state, rc and the slot used.    *)
(***************************************************************************)
register_mmio(s, addr, size, type, g) ==
    LET a == s.afu
        free == {j \in 0..(a.mmio_count - 1) : a.mmios[j + 1].start = NULL}
        region == [start |-> addr, length |-> size, type |-> type]
    IN  IF free # {}
        THEN [s |-> TRACE([s EXCEPT !.afu.mmios[Min(free) + 1] = region]),
              rc |-> "OCXL_OK", slot |-> Min(free)]
        ELSE
        LET grown == IF a.mmio_count = a.mmio_max_count
                     THEN grow_buffer(a.mmios_buf, a.mmio_max_count, INITIAL_MMIO_COUNT, g)
                     ELSE [rc |-> "OCXL_OK", buf |-> a.mmios_buf, count |-> a.mmio_max_count]
        IN  IF grown.rc # "OCXL_OK"
            THEN [s |-> afu_errmsg(afu_errmsg(s, grown.rc), grown.rc),
                  rc |-> grown.rc, slot |-> -1]
            ELSE [s |-> TRACE([s EXCEPT !.afu.mmios_buf = grown.buf,
                                  !.afu.mmio_max_count = grown.count,
                                  !.afu.mmio_count = (a.mmio_count + 1) % (UINT16_MAX + 1),
                                  !.afu.mmios = Append(SubSeq(@, 1, a.mmio_count), region)]),
                  rc |-> "OCXL_OK", slot |-> a.mmio_count]

\* mmap(2) of `size` bytes of descriptor fd: fails on a length of 0, on a
\* length near 2^64 (a negative representative), on a descriptor that is
\* not open, or when the kernel refuses (mok = FALSE).
mmap_ok(s, size, fd, mok) == mok /\ size > 0 /\ fd \in s.kern.fds

\* mmio.c: the tail shared by global_mmio_map and mmio_map: mmap, then
\* register_mmio, with the mapping undone when the registration fails.
map_and_register(s, size, fd, type, mok, g) ==
    IF ~mmap_ok(s, size, fd, mok)
    THEN [s |-> afu_errmsg([s EXCEPT !.trace = Append(@, <<"mmap", MAP_FAILED, FALSE>>)],
                           "OCXL_NO_MEM"),
          rc |-> "OCXL_NO_MEM", slot |-> -1]
    ELSE LET addr == NewAddr(s.kern, MmioPages)
             r == register_mmio(sys_mmap(s, MmioPages), addr, size, type, g)
         IN  IF r.rc # "OCXL_OK"
             THEN [s |-> sys_munmap(afu_errmsg(r.s, r.rc), addr), rc |-> r.rc, slot |-> -1]
             ELSE r

\* mmio.c: global_mmio_map (flags = 0).
global_mmio_map(s, size, mok, g) ==
    IF s.afu.global_len = 0
    THEN [s |-> afu_errmsg(s, "OCXL_NO_MEM"), rc |-> "OCXL_NO_MEM", slot |-> -1]
    ELSE map_and_register(s, size, s.afu.global_mmio_fd, "OCXL_GLOBAL_MMIO", mok, g)

\* mmio.c: mmio_map (flags = 0).
mmio_map(s, size, mok, g) ==
    IF s.afu.fd < 0 \/ ~s.afu.attached
    THEN [s |-> afu_errmsg(s, "OCXL_NO_CONTEXT"), rc |-> "OCXL_NO_CONTEXT", slot |-> -1]
    ELSE map_and_register(s, size, s.afu.fd, "OCXL_PER_PASID_MMIO", mok, g)

(***************************************************************************)
(* afu.c: afu_use, ocxl_afu_use_from_dev.  `o` is what afu_open meets and  *)
(* `step` the later step of afu_use that fails ("none": all succeed).      *)
(* ocxl_afu_set_ppc64_amr stores its argument and returns OCXL_OK.  The    *)
(* two map calls of afu_use map the whole area and register it, or fail    *)
(* leaving nothing mapped.  afu_use reports whether it has called          *)
(* ocxl_afu_close.                                                         *)
(***************************************************************************)
UseSteps == {"none", "attach", "global_map", "mmio_map"}

use_map(s, size, type, ok) ==
    LET r == map_and_register(s, size, s.afu.fd, type, ok, "inplace")
    IN  [s |-> r.s, rc |-> r.rc]

afu_use_closed(s, rc) == [s |-> close_teardown(s, TRUE), rc |-> rc, closed |-> TRUE]

\* afu_use after the per-context map returned p.
afu_use_mapped(p) ==
    IF p.rc # "OCXL_OK" THEN afu_use_closed(p.s, p.rc)
    ELSE [s |-> p.s, rc |-> "OCXL_OK", closed |-> FALSE]

\* afu_use after the global map returned g.
afu_use_global(g, step) ==
    IF g.rc # "OCXL_OK" THEN afu_use_closed(g.s, g.rc)
    ELSE afu_use_mapped(use_map(g.s, g.s.afu.pp_len, "OCXL_PER_PASID_MMIO", step # "mmio_map"))

\* afu_use after afu_open returned r: ocxl_afu_attach, then the maps.
afu_use_opened(r, step) ==
    IF r.rc # "OCXL_OK" THEN [s |-> r.s, rc |-> r.rc, closed |-> FALSE]
    ELSE IF step = "attach"
    THEN afu_use_closed([r.s EXCEPT !.trace = Append(@, <<"ioctl_attach", r.s.afu.fd, TRUE>>)],
                        "OCXL_INTERNAL_ERROR")
    ELSE afu_use_global(
             use_map([r.s EXCEPT !.trace = Append(@, <<"ioctl_attach", r.s.afu.fd, TRUE>>)],
                     r.s.afu.global_len, "OCXL_GLOBAL_MMIO", step # "global_map"),
             step)

afu_use(s, o, step) == afu_use_opened(afu_open(s, o), step)

\* The ocxl_afu_close of ocxl_afu_use_from_dev after afu_use failed as u,
\* reading fdread from the structure.
use_failed_close(u, fdread) ==
    IF fdread < 0 THEN u.s
    ELSE close_teardown([u.s EXCEPT !.afu.fd = fdread], ~u.closed)

\* ocxl_afu_use_from_dev after afu_use failed as u, c being the state after
\* the ocxl_afu_close.
use_failed(u, c) ==
    [afu |-> c.afu, kern |-> c.kern, trace |-> c.trace, rc |-> u.rc,
     handle |-> OCXL_INVALID_AFU, closed |-> u.closed,
     heap |-> IF ~u.closed /\ u.s.afu.fd < 0 THEN 1 ELSE 0]

\* ocxl_afu_use_from_dev after afu_use returned u on the handle h.  When
\* afu_use has closed the handle already, the structure is freed and the fd
\* read from it is freed_fd.
use_from_dev_used(u, h, freed_fd) ==
    IF u.rc # "OCXL_OK"
    THEN use_failed(u, use_failed_close(u, IF u.closed THEN freed_fd ELSE u.s.afu.fd))
    ELSE [afu |-> u.s.afu, kern |-> u.s.kern, trace |-> u.s.trace, rc |-> "OCXL_OK",
          handle |-> h, closed |-> FALSE, heap |-> 1]

\* ocxl_afu_use_from_dev after get_afu_by_path returned g.
use_from_dev_got(g, k, o, step, freed_fd) ==
    IF g.rc # "OCXL_OK"
    THEN [afu |-> g.afu, kern |-> k, trace |-> << >>, rc |-> g.rc, handle |-> g.handle,
          closed |-> FALSE, heap |-> IF g.alloc THEN 1 ELSE 0]
    ELSE use_from_dev_used(afu_use(St(g.afu, k, << >>), o, step), g.handle, freed_fd)

use_from_dev(k, path, m, glen, o, step, freed_fd) ==
    use_from_dev_got(get_afu_by_path(path, m, glen), k, o, step, freed_fd)

\* ocxl_afu_use_from_dev called by the application, on the device 1.
ocxl_afu_use_from_dev(m, o, step, freed_fd) ==
    /\ mem = "none"
    /\ opens < MaxOpens
    /\ opens' = opens + 1
    /\ m # "ok" => o = "ok"
    /\ o # "ok" => step = "none"
    /\ \E r \in {use_from_dev(kern, 1, m, Min(GlobalLens \ {0}), o, step, freed_fd)} :
           /\ ~r.closed => freed_fd = -1
           /\ ret' = [op |-> "use", rc |-> r.rc, handle |-> r.handle, m |-> m, o |-> o,
                      step |-> step, closed |-> r.closed, freed_fd |-> freed_fd,
                      fds_left |-> r.kern.fds \ kern.fds, maps_left |-> r.kern.maps \ kern.maps]
           /\ heap' = heap + r.heap
           /\ trace' = r.trace
           /\ kern' = r.kern
           /\ afu' = IF r.handle # OCXL_INVALID_AFU THEN r.afu ELSE afu
           /\ mem' = IF r.handle # OCXL_INVALID_AFU THEN "live" ELSE mem
    /\ UNCHANGED <<pend, evq, hist, lib, thr, dev, dead>>

(***************************************************************************)
(* Values of type size_t and off_t near 0 modulo 2^64 are written as the   *)
(* integer congruent to them of smallest magnitude: -3 stands for          *)
(* 2^64 - 3 as a size_t and for -3 as an off_t.  Addition and subtraction  *)
(* are then the integers'; a signed comparison is the integers'; an        *)
(* unsigned comparison orders the negative representatives above the       *)
(* others.                                                                 *)
(***************************************************************************)
UGt(x, y) == IF (x < 0) = (y < 0) THEN x > y ELSE x < 0

\* mmio.c: ocxl_mmio_map_advanced (flags = 0).
mmio_map_advanced(s, type, size, offset, mok, g) ==
    LET len == IF type = "OCXL_GLOBAL_MMIO" THEN s.afu.global_len ELSE s.afu.pp_len
        sz == IF size = 0 THEN len - offset ELSE size
    IN  IF UGt(offset + sz, len)
        THEN [s |-> afu_errmsg(s, "OCXL_NO_MEM"), rc |-> "OCXL_NO_MEM", slot |-> -1]
        ELSE IF type = "OCXL_GLOBAL_MMIO"
        THEN global_mmio_map(s, sz, mok, g)
        ELSE mmio_map(s, sz, mok, g)

MmioTypes == {"OCXL_GLOBAL_MMIO", "OCXL_PER_PASID_MMIO"}
MapOffsets == {0, 8, 24}

Mapped(a) == {j \in 0..(a.mmio_count - 1) : a.mmios[j + 1].start # NULL}

ocxl_mmio_map_advanced(type, size, offset, mok, g) ==
    /\ mem = "live"
    /\ (Cardinality(Mapped(afu)) < afu.mmio_count \/ afu.mmio_count # afu.mmio_max_count)
           => g = "inplace"
    /\ (afu.mmios_buf = NULL) => g # "inplace"
    /\ LET r == mmio_map_advanced(St(afu, kern, << >>), type, size, offset, mok, g)
       IN  /\ afu' = r.s.afu
           /\ kern' = r.s.kern
           /\ trace' = r.s.trace
           /\ ret' = [op |-> "map", rc |-> r.rc, slot |-> r.slot,
                      type |-> type, size |-> size, offset |-> offset]
    /\ UNCHANGED <<mem, heap, pend, evq, hist, lib, thr, opens, dev, dead>>

\* mmio.c: ocxl_mmio_unmap through the handle of slot j.
mmio_unmap(j) ==
    /\ mem = "live"
    /\ j \in 0..(afu.mmio_count - 1)
    /\ LET s == ocxl_mmio_unmap(St(afu, kern, << >>), j)
       IN  /\ afu' = s.afu
           /\ kern' = s.kern
           /\ trace' = s.trace
           /\ ret' = [op |-> "unmap", rc |-> "OCXL_OK", slot |-> j]
    /\ dead' = dead \cup {[buf |-> afu.mmios_buf, idx |-> j]}
    /\ UNCHANGED <<mem, heap, pend, evq, hist, lib, thr, opens, dev>>

\* A check that compares against length - size.
mmio_check_size(region, offset, size) ==
    IF region.start = NULL THEN "OCXL_INVALID_ARGS"
    ELSE IF offset >= region.length - size THEN "OCXL_OUT_OF_BOUNDS"
    ELSE "OCXL_OK"

(***************************************************************************)
(* mmio.c: mmio_check on a region (a non-NULL handle).                     *)
(***************************************************************************)
mmio_check(region, offset, size) ==
    IF region.start = NULL THEN "OCXL_INVALID_ARGS"
    ELSE IF offset >= region.length - (size - 1) THEN "OCXL_OUT_OF_BOUNDS"
    ELSE "OCXL_OK"

\* mmio.c: the four native accessors: mmio_check with the access width, then
\* one transfer of that width at start + offset.
mmio_native(region, offset, width) == mmio_check(region, offset, width)

Widths == {4, 8}
AccessOffsets == (-7)..14

\* ocxl_mmio_read32/read64/write32/write64 on the region of slot j.
mmio_access(j, offset, width) ==
    /\ mem = "live"
    /\ j \in 0..(afu.mmio_count - 1)
    /\ \E rc \in {mmio_native(afu.mmios[j + 1], offset, width)} :
           /\ ret' = [op |-> "mmio", rc |-> rc, slot |-> j, offset |-> offset,
                      width |-> width]
           /\ trace' = IF rc # "OCXL_OK" THEN errmsg(<<afu>>, rc) ELSE << >>
    /\ UNCHANGED <<afu, mem, heap, kern, pend, evq, hist, lib, thr, opens, dev, dead>>

\* mmio.c: ocxl_mmio_get_info: the address and the size of a mapped region.
ocxl_mmio_get_info(region) ==
    IF region.start = NULL
    THEN [rc |-> "OCXL_INVALID_ARGS", address |-> NULL, size |-> 0]
    ELSE [rc |-> "OCXL_OK", address |-> region.start, size |-> region.length]

\* ocxl_mmio_get_info through the handle of slot j.
mmio_get_info(j) ==
    /\ mem = "live"
    /\ j \in 0..(afu.mmio_count - 1)
    /\ LET r == ocxl_mmio_get_info(afu.mmios[j + 1])
       IN  ret' = [op |-> "get_info", rc |-> r.rc, slot |-> j,
                   address |-> r.address, size |-> r.size]
    /\ trace' = << >>
    /\ UNCHANGED <<afu, mem, heap, kern, pend, evq, hist, lib, thr, opens, dev, dead>>

(***************************************************************************)
(* Data.  A value of w bytes is the sequence of its bytes, the least       *)
(* significant first (0x12345678 is <<0x78, 0x56, 0x34, 0x12>>).  A        *)
(* little-endian host stores the least significant byte of a word at the   *)
(* lowest address, a big-endian host the most significant one.  Device     *)
(* memory is the bytes of the MMIO area from its start; the regions        *)
(* accessed are mappings of the area from its offset 0, so that the byte   *)
(* at start + offset is byte `offset` of the area (dev.bytes[offset + 1]). *)
(***************************************************************************)
bswap(v) == [i \in 1..Len(v) |-> v[Len(v) + 1 - i]]

\* Conversions that leave the value as it is.
htobe_none(v, host) == v
betoh_none(v, host) == v

\* endian.h: htobe32/htobe64, htole32/htole64, be32toh/be64toh,
\* le32toh/le64toh on a host of the given byte order.
htobe(v, host) == IF host = "little" THEN bswap(v) ELSE v
htole(v, host) == IF host = "big" THEN bswap(v) ELSE v
betoh(v, host) == IF host = "little" THEN bswap(v) ELSE v
letoh(v, host) == IF host = "big" THEN bswap(v) ELSE v

\* One load, one store of a word of Len(v) bytes at byte `offset`.
load(d, offset, width) ==
    LET m == [i \in 1..width |-> d.bytes[offset + i]]
    IN  IF d.host = "little" THEN m ELSE bswap(m)

\* A store of the word that also overwrites the word after it.
store_wide(d, offset, v) ==
    LET m == IF d.host = "little" THEN v ELSE bswap(v)
    IN  [d EXCEPT !.bytes = [k \in DOMAIN @ |->
                                IF k - offset \in 1..Len(v) THEN m[k - offset]
                                ELSE IF k - offset \in (Len(v) + 1)..(2 * Len(v)) THEN 0
                                ELSE @[k]]]

store(d, offset, v) ==
    LET m == IF d.host = "little" THEN v ELSE bswap(v)
    IN  [d EXCEPT !.bytes = [k \in DOMAIN @ |->
                                IF k - offset \in 1..Len(v) THEN m[k - offset] ELSE @[k]]]

Access(kind, width) == kind \o (IF width = 4 THEN "32" ELSE "64")

\* A read that leaves out the barrier after the load.
mmio_read_no_barrier(region, offset, width, d) ==
    LET rc == mmio_check(region, offset, width)
    IN  IF rc # "OCXL_OK"
        THEN [rc |-> rc, val |-> << >>, trace |-> << >>]
        ELSE [rc |-> rc, val |-> load(d, offset, width),
              trace |-> << <<"sync", 0, TRUE>>,
                           <<Access("load", width), region.start + offset, TRUE>> >>]

\* mmio.c: mmio_read32_native (width 4), mmio_read64_native (width 8).
mmio_read_native(region, offset, width, d) ==
    LET rc == mmio_check(region, offset, width)
    IN  IF rc # "OCXL_OK"
        THEN [rc |-> rc, val |-> << >>, trace |-> << >>]
        ELSE [rc |-> rc, val |-> load(d, offset, width),
              trace |-> << <<"sync", 0, TRUE>>,
                           <<Access("load", width), region.start + offset, TRUE>>,
                           <<"sync", 0, TRUE>> >>]

\* mmio.c: mmio_write32_native (width 4), mmio_write64_native (width 8).
mmio_write_native(region, offset, width, value, d) ==
    LET rc == mmio_check(region, offset, width)
    IN  IF rc # "OCXL_OK"
        THEN [rc |-> rc, dev |-> d, trace |-> << >>]
        ELSE [rc |-> rc, dev |-> store(d, offset, value),
              trace |-> << <<"sync", 0, TRUE>>,
                           <<Access("store", width), region.start + offset, TRUE>>,
                           <<"sync", 0, TRUE>> >>]

(***************************************************************************)
(* Threads calling mmio_write32_native (the writers) and                   *)
(* mmio_read32_native (the reader) on the region of slot j at the same     *)
(* time.  A call is three steps: the entry with mmio_check and the first   *)
(* barrier, the one load or store of the word, the second barrier and the  *)
(* return.  The aligned 32-bit access to device memory is one transfer.    *)
(***************************************************************************)
Writers == {1, 2}
ThreadOffsets == {0, 4, 8, 16}
ThreadValue(t) == [i \in 1..4 |-> 16 * t + i]

thread_call(t, j, offset) ==
    /\ mem = "live"
    /\ j \in 0..(afu.mmio_count - 1)
    /\ thr[t].pc = "idle"
    /\ LET rc == mmio_check(afu.mmios[j + 1], offset, 4)
       IN  thr' = [thr EXCEPT ![t] = [pc |-> IF rc = "OCXL_OK" THEN "access" ELSE "done",
                                      write |-> t \in Writers, offset |-> offset,
                                      rc |-> rc, val |-> << >>]]
    /\ UNCHANGED <<afu, mem, heap, kern, pend, evq, trace, ret, hist, lib, opens, dev, dead>>

thread_access(t) ==
    /\ thr[t].pc = "access"
    /\ IF thr[t].write
       THEN /\ dev' = store(dev, thr[t].offset, ThreadValue(t))
            /\ thr' = [thr EXCEPT ![t].pc = "sync"]
       ELSE /\ dev' = dev
            /\ thr' = [thr EXCEPT ![t].pc = "sync", ![t].val = load(dev, thr[t].offset, 4)]
    /\ UNCHANGED <<afu, mem, heap, kern, pend, evq, trace, ret, hist, lib, opens, dead>>

thread_return(t) ==
    /\ thr[t].pc = "sync"
    /\ thr' = [thr EXCEPT ![t].pc = "done"]
    /\ UNCHANGED <<afu, mem, heap, kern, pend, evq, trace, ret, hist, lib, opens, dev, dead>>

Endians == {"OCXL_MMIO_BIG_ENDIAN", "OCXL_MMIO_LITTLE_ENDIAN", "OCXL_MMIO_HOST_ENDIAN"}

\* mmio.c: ocxl_mmio_read32 (width 4), ocxl_mmio_read64 (width 8); *out is
\* written on success only.
ocxl_mmio_read(region, offset, width, endian, d) ==
    LET r == mmio_read_native(region, offset, width, d)
    IN  IF r.rc # "OCXL_OK" THEN r
        ELSE [r EXCEPT !.val =
                 IF endian = "OCXL_MMIO_BIG_ENDIAN" THEN betoh(@, d.host)
                 ELSE IF endian = "OCXL_MMIO_LITTLE_ENDIAN" THEN letoh(@, d.host)
                 ELSE @]

\* mmio.c: ocxl_mmio_write32 (width 4), ocxl_mmio_write64 (width 8).
ocxl_mmio_write(region, offset, width, endian, value, d) ==
    LET v == IF endian = "OCXL_MMIO_BIG_ENDIAN" THEN htobe(value, d.host)
             ELSE IF endian = "OCXL_MMIO_LITTLE_ENDIAN" THEN htole(value, d.host)
             ELSE value
    IN  mmio_write_native(region, offset, width, v, d)

\* The values written: 0x12345678 and 0x0123456789ABCDEF; the offsets: the
\* two words of a region of 8 bytes (a 64-bit access at 4 is out of bounds).
Values(width) ==
    IF width = 4
    THEN {<<120, 86, 52, 18>>}
    ELSE {<<239, 205, 171, 137, 103, 69, 35, 1>>}
RwOffsets == {0, 4}

\* ocxl_mmio_read32/read64 through the handle of slot j.
mmio_read(j, offset, width, endian) ==
    /\ mem = "live"
    /\ j \in 0..(afu.mmio_count - 1)
    /\ LET r == ocxl_mmio_read(afu.mmios[j + 1], offset, width, endian, dev)
       IN  /\ ret' = [op |-> "read", rc |-> r.rc, slot |-> j, offset |-> offset,
                      width |-> width, endian |-> endian, val |-> r.val]
           /\ trace' = r.trace
    /\ UNCHANGED <<afu, mem, heap, kern, pend, evq, hist, lib, thr, opens, dev, dead>>

\* ocxl_mmio_write32/write64 through the handle of slot j.
mmio_write(j, offset, width, endian, value) ==
    /\ mem = "live"
    /\ j \in 0..(afu.mmio_count - 1)
    /\ LET r == ocxl_mmio_write(afu.mmios[j + 1], offset, width, endian, value, dev)
       IN  /\ ret' = [op |-> "write", rc |-> r.rc, slot |-> j, offset |-> offset,
                      width |-> width, endian |-> endian, val |-> value]
           /\ dev' = r.dev
           /\ trace' = r.trace
    /\ UNCHANGED <<afu, mem, heap, kern, pend, evq, hist, lib, thr, opens, dead>>

(***************************************************************************)
(* The environment of the event multiplexer: the AFU triggers the          *)
(* interrupt behind an eventfd; the kernel queues an event record on the   *)
(* context descriptor (type 0: translation fault, above: not known to      *)
(* the library).                                                           *)
(***************************************************************************)
KernelEventTypes == {OCXL_AFU_EVENT_XSL_FAULT_ERROR, 1}

irq_trigger(fd) ==
    /\ mem = "live"
    /\ fd \in DOMAIN pend
    /\ pend[fd] < MaxPending
    /\ pend' = [pend EXCEPT ![fd] = @ + 1]
    /\ UNCHANGED <<afu, mem, heap, kern, evq, trace, ret, hist, lib, thr, opens, dev, dead>>

kernel_event(type) ==
    /\ mem = "live"
    /\ Len(evq) < MaxQueue
    /\ LET addr == Min({x \in 1..(MaxQueue + 1) : \A i \in DOMAIN evq : evq[i].addr # x})
       IN  evq' = Append(evq, [type |-> type, addr |-> addr])
    /\ UNCHANGED <<afu, mem, heap, kern, pend, trace, ret, hist, lib, thr, opens, dev, dead>>

\* The registrations of the epoll set that are readable.
Ready(k, p, q, cfd) ==
    {r \in k.epoll : \/ (r.fd = cfd /\ q # << >>)
                     \/ (r.fd \in DOMAIN p /\ p[r.fd] > 0)}

\* epoll_wait reports n of the ready registrations, in any order.
ReadyOrders(S, n) == {o \in [1..n -> S] : \A i, j \in 1..n : o[i] = o[j] => i = j}

(***************************************************************************)
(* irq.c: read_afu_event.  q is the queue of the context descriptor (read  *)
(* is non-blocking), `fail` whether this read(2) fails with an error other *)
(* than EAGAIN.  The result: the action, the queue left, *last and the     *)
(* record read.                                                            *)
(***************************************************************************)
NoRecord == [type |-> -1, addr |-> 0]

\* A read that takes a fault record off the queue and reports nothing.
read_afu_event_drop(q, event_api_version, fail) ==
    IF event_api_version # 0 \/ fail
    THEN [action |-> "FAIL", q |-> q, last |-> FALSE, rec |-> NoRecord]
    ELSE IF q = << >>
    THEN [action |-> "NONE", q |-> q, last |-> TRUE, rec |-> NoRecord]
    ELSE [action |-> "IGNORE", q |-> Tail(q), last |-> Len(q) = 1, rec |-> Head(q)]

\* A read that reports a record of any type as an event.
read_afu_event_any(q, event_api_version, fail) ==
    IF event_api_version # 0 \/ fail
    THEN [action |-> "FAIL", q |-> q, last |-> FALSE, rec |-> NoRecord]
    ELSE IF q = << >>
    THEN [action |-> "NONE", q |-> q, last |-> TRUE, rec |-> NoRecord]
    ELSE [action |-> "SUCCESS", q |-> Tail(q), last |-> Len(q) = 1, rec |-> Head(q)]

read_afu_event(q, event_api_version, fail) ==
    IF event_api_version # 0
    THEN [action |-> "FAIL", q |-> q, last |-> FALSE, rec |-> NoRecord]
    ELSE IF fail
    THEN [action |-> "FAIL", q |-> q, last |-> FALSE, rec |-> NoRecord]
    ELSE IF q = << >>
    THEN [action |-> "NONE", q |-> q, last |-> TRUE, rec |-> NoRecord]
    ELSE IF Head(q).type > OCXL_AFU_EVENT_XSL_FAULT_ERROR
    THEN [action |-> "IGNORE", q |-> Tail(q), last |-> Len(q) = 1, rec |-> Head(q)]
    ELSE [action |-> "SUCCESS", q |-> Tail(q), last |-> Len(q) = 1, rec |-> Head(q)]

\* irq.c, populate_xsl_fault_error: the event built from a fault record.
populate_xsl_fault_error(rec) ==
    [type |-> "OCXL_EVENT_TRANSLATION_FAULT", irq |-> 0, handle |-> 0, info |-> 0,
     count |-> 1, addr |-> rec.addr]

(***************************************************************************)
(* irq.c: ocxl_afu_event_check_versioned.  The loop state c: the entries   *)
(* written to the caller's array so far (entry n is events[n - 1]), the    *)
(* queue and the eventfd counters, what was read from the kernel, the      *)
(* number of reads of the context descriptor, and whether the call failed. *)
(* env: the read of the context descriptor that fails (0: none), the       *)
(* eventfds whose read fails, and what a read through a pointer into a     *)
(* freed interrupt buffer yields.                                          *)
(***************************************************************************)
RECURSIVE drain_afu(_, _, _)
\* The EPOLL_SOURCE_OCXL case: the while loop around read_afu_event.
drain_afu(c, event_api_version, env) ==
    LET r == read_afu_event(c.evq, event_api_version, c.reads + 1 = env.failat)
        ok == r.action = "SUCCESS"
        c1 == [c EXCEPT !.evq = r.q,
                        !.reads = @ + 1,
                        !.events = IF ok THEN Append(@, populate_xsl_fault_error(r.rec)) ELSE @,
                        !.consumed = IF ok THEN @ \cup {[kind |-> "fault", key |-> r.rec.addr, count |-> 1]}
                                     ELSE @]
    IN  IF r.action \in {"SUCCESS", "IGNORE"}
        THEN IF r.last THEN c1 ELSE drain_afu(c1, event_api_version, env)
        ELSE IF r.action = "FAIL" THEN [c1 EXCEPT !.failed = TRUE]
        ELSE c1

DanglingReads == {"stale", "junk_fd", "junk_fields"}
JunkField == 99

\* The EPOLL_SOURCE_IRQ case for the registration r.  r.ptr is the address
\* of a slot of the interrupt buffer as it was when the interrupt was
\* allocated; if the buffer has moved since, the reads through it are reads
\* of freed memory: they find the old content, or a descriptor that cannot
\* be read, or other fields.
irq_source(c, a, r, env) ==
    LET dangling == r.ptr.buf # a.irqs_buf
        slot == a.irqs[r.ptr.idx + 1]
    IN  IF dangling /\ env.dang = "junk_fd" THEN c
        ELSE IF r.fd \in env.ifail THEN c
        ELSE LET n == c.pend[r.fd]
                 e == IF dangling /\ env.dang = "junk_fields"
                      THEN [type |-> "OCXL_EVENT_IRQ", irq |-> JunkField, handle |-> JunkField,
                            info |-> JunkField, count |-> n, addr |-> 0]
                      ELSE [type |-> "OCXL_EVENT_IRQ", irq |-> slot.irq_number, handle |-> slot.addr,
                            info |-> slot.info, count |-> n, addr |-> 0]
             IN  [c EXCEPT !.events = Append(@, e),
                           !.pend[r.fd] = 0,
                           !.consumed = @ \cup {[kind |-> "irq", key |-> r.ptr.idx, count |-> n]}]

RECURSIVE check_loop(_, _, _, _, _, _)
\* The for loop over the sources epoll_wait reported, from source n on.
check_loop(c, a, R, n, event_api_version, env) ==
    IF n > Len(R) THEN c
    ELSE IF R[n].ptr = AfuSource
    THEN LET c1 == drain_afu(c, event_api_version, env)
         IN  IF c1.failed THEN c1 ELSE check_loop(c1, a, R, n + 1, event_api_version, env)
    ELSE check_loop(irq_source(c, a, R[n], env), a, R, n + 1, event_api_version, env)

event_check_versioned(a, k, p, q, event_count, event_api_version, R, env) ==
    LET realloc == event_count > a.epoll_event_count
        a1 == IF realloc
              THEN [a EXCEPT !.epoll_event_count = IF env.mok THEN event_count ELSE 0]
              ELSE a
        c0 == [events |-> << >>, evq |-> q, pend |-> p, consumed |-> {}, reads |-> 0,
               failed |-> FALSE]
    IN  IF realloc /\ ~env.mok THEN [afu |-> a1, c |-> c0, val |-> -1, fail |-> "malloc"]
        ELSE IF event_count <= 0 \/ a.epoll_fd \notin k.fds
        THEN [afu |-> a1, c |-> c0, val |-> -1, fail |-> "epoll_wait"]
        ELSE LET c == check_loop(c0, a1, R, 1, event_api_version, env)
             IN  [afu |-> a1, c |-> c,
                  val |-> IF c.failed THEN -1 ELSE Len(c.events) % (UINT16_MAX + 1),
                  fail |-> IF c.failed THEN "read" ELSE "none"]

\* libocxl.h: ocxl_afu_event_check, the call with event_api_version 0.
ocxl_afu_event_check(event_count, mok, failat, ifail, dang) ==
    /\ mem = "live"
    /\ event_count <= afu.epoll_event_count => mok
    /\ LET rdy == Ready(kern, pend, evq, afu.fd)
           n == IF Cardinality(rdy) < event_count THEN Cardinality(rdy) ELSE event_count
       IN  \E R \in ReadyOrders(rdy, n) :
           /\ (\A i \in 1..n : R[i].ptr # AfuSource) => failat = 0
           /\ ifail \subseteq {R[i].fd : i \in {j \in 1..n : R[j].ptr # AfuSource}}
           /\ (\A i \in 1..n : R[i].ptr.buf \in {NULL, afu.irqs_buf}) => dang = "stale"
           /\ LET env == [mok |-> mok, failat |-> failat, ifail |-> ifail, dang |-> dang]
                  r == event_check_versioned(afu, kern, pend, evq, event_count, 0, R, env)
              IN  /\ afu' = r.afu
                  /\ pend' = r.c.pend
                  /\ evq' = r.c.evq
                  /\ ret' = [op |-> "event_check", rc |-> "OCXL_OK", val |-> r.val,
                             events |-> r.c.events, event_count |-> event_count,
                             consumed |-> r.c.consumed, ready |-> R,
                             queued |-> evq, left |-> r.c.evq, fail |-> r.fail,
                             irq_failed |-> ifail]
    /\ trace' = << >>
    /\ UNCHANGED <<mem, heap, kern, hist, lib, thr, opens, dev, dead>>

(***************************************************************************)
(* irq.c: ocxl_afu_event_check_versioned step by step, for a thread that   *)
(* waits on a context with no interrupts: the entry, epoll_wait with a     *)
(* timeout >= 0 (0: poll; otherwise the thread may sleep until the context *)
(* descriptor is readable or the timeout expires), then one read of the    *)
(* context descriptor per step.  `fail`: the read fails.                   *)
(***************************************************************************)
Timeouts == {0, 1}
Waiter == Min(Threads)

\* A loop that goes on reading whatever the read returned.
drain_ends_never(r) == FALSE

\* The exits of the while loop: a record with `last`, EAGAIN, a failed read.
drain_ends(r) == r.last \/ r.action \notin {"SUCCESS", "IGNORE"}

check_call(t, timeout) ==
    /\ mem = "live"
    /\ thr[t].pc = "idle"
    /\ thr' = [thr EXCEPT ![t] = [pc |-> "epoll_wait", timeout |-> timeout, triggered |-> 0,
                                  reads |-> 0, action |-> "NONE", last |-> FALSE, val |-> 0]]
    /\ UNCHANGED <<afu, mem, heap, kern, pend, evq, trace, ret, hist, lib, opens, dev, dead>>

check_wait(t) ==
    /\ thr[t].pc \in {"epoll_wait", "blocked"}
    /\ thr' = [thr EXCEPT ![t].pc =
                  IF \E r \in Ready(kern, pend, evq, afu.fd) : r.ptr = AfuSource THEN "drain"
                  ELSE IF thr[t].timeout = 0 \/ thr[t].pc = "blocked" THEN "done"
                  ELSE "blocked"]
    /\ UNCHANGED <<afu, mem, heap, kern, pend, evq, trace, ret, hist, lib, opens, dev, dead>>

check_read(t, fail) ==
    /\ thr[t].pc = "drain"
    /\ \E r \in {read_afu_event(evq, 0, fail)} :
           /\ evq' = r.q
           /\ thr' = [thr EXCEPT
                         ![t].reads = @ + 1,
                         ![t].action = r.action,
                         ![t].last = r.last,
                         ![t].triggered = IF r.action = "SUCCESS" THEN @ + 1 ELSE @,
                         ![t].val = IF r.action = "FAIL" THEN -1
                                    ELSE IF r.action = "SUCCESS" THEN thr[t].triggered + 1
                                    ELSE thr[t].triggered,
                         ![t].pc = IF drain_ends(r) THEN "done" ELSE "drain"]
    /\ UNCHANGED <<afu, mem, heap, kern, pend, trace, ret, hist, lib, opens, dev, dead>>

(***************************************************************************)
(* The life cycle: open, attach, interrupts, regions, close.               *)
(***************************************************************************)
\* What a read of the fd field of a freed handle may find.
FreedReads == {-1, 3}

\* afu.c: ocxl_afu_get_fd, ocxl_afu_get_global_mmio_size and
\* ocxl_afu_get_mmio_size return a field of the structure.  On a handle
\* that ocxl_afu_close has freed the read finds what the field held when
\* the block was freed, or what was written to the block since (junk).
AfuGetters == {"fd", "global_len", "pp_len"}

ocxl_afu_get(field, junk) ==
    /\ mem \in {"live", "freed"}
    /\ mem = "live" => ~junk
    /\ ret' = [op |-> "get", field |-> field, live |-> mem = "live",
               val |-> IF junk THEN JunkField ELSE afu[field]]
    /\ trace' = << >>
    /\ UNCHANGED <<afu, mem, heap, kern, pend, evq, hist, lib, thr, opens, dev, dead>>

Next ==
    \/ \E m \in PathOutcomes, glen \in GlobalLens, o \in OpenOutcomes :
           ocxl_afu_open_from_dev(m, glen, o)
    \/ \E ok \in BOOLEAN : ocxl_afu_attach(ok)
    \/ \E info \in Infos, g \in GrowOutcomes, f \in IrqFailSteps :
           afu.irq_count < MaxIrqs /\ ocxl_irq_alloc(info, g, f)
    \/ \E which \in {"get_handle", "get_fd"}, irq \in 0..(MaxIrqs + 1), junk \in Junk :
           irq_accessor(which, irq, junk)
    \/ \E type \in MmioTypes, mok \in BOOLEAN, g \in GrowOutcomes :
           /\ Cardinality(Mapped(afu)) < MaxRegions
           /\ ocxl_mmio_map_advanced(type, 0, 0, mok, g)
    \/ \E j \in 0..(MaxRegions - 1) : mmio_unmap(j)
    \/ \E freed_fd \in FreedReads : ocxl_afu_close(freed_fd)

Spec == Init /\ [][Next]_vars

OpenOk == ocxl_afu_open_from_dev("ok", 16, "ok")

(***************************************************************************)
(* MMIO regions and the accesses to them, on an open context.              *)
(***************************************************************************)
AccessSizes == {0, 2, 8, 16}

NextMmio ==
    \/ OpenOk
    \/ \E size \in AccessSizes, offset \in MapOffsets, mok \in BOOLEAN, g \in GrowOutcomes :
           /\ Cardinality(Mapped(afu)) < MaxMmio
           /\ ocxl_mmio_map_advanced("OCXL_GLOBAL_MMIO", size, offset, mok, g)
    \/ \E j \in 0..(MaxMmio - 1) : mmio_unmap(j)
    \/ \E j \in 0..(MaxMmio - 1), offset \in AccessOffsets, width \in Widths :
           mmio_access(j, offset, width)

SpecMmio == Init /\ [][NextMmio]_vars

(***************************************************************************)
(* Regions mapped and unmapped until the region buffer has to grow past    *)
(* its first INITIAL_MMIO_COUNT slots.                                     *)
(***************************************************************************)
NextRegions ==
    \/ OpenOk
    \/ \E g \in GrowOutcomes :
           /\ Cardinality(Mapped(afu)) < MaxSlots
           /\ ocxl_mmio_map_advanced("OCXL_GLOBAL_MMIO", 0, 0, TRUE, g)
    \/ \E j \in 0..(MaxSlots - 1) : mmio_unmap(j)

SpecRegions == Init /\ [][NextRegions]_vars

(***************************************************************************)
(* The counters of the two growable buffers over a long run of             *)
(* allocations with nothing released in between.  ocxl_irq_alloc (irq.c)   *)
(* and register_mmio with no free slot (mmio.c) do the same arithmetic:    *)
(* grow the buffer when count == max_count, use slot `count`, increment    *)
(* count.  The contents of the slots are left out here: afu.irqs and       *)
(* afu.mmios stay as they are, only the buffer address, the count and the  *)
(* capacity advance.  One of the two buffers is filled in a run.           *)
(***************************************************************************)
next_slot(buf, count, max_count, initial_count, g) ==
    LET grown == IF count = max_count
                 THEN grow_buffer(buf, max_count, initial_count, g)
                 ELSE [rc |-> "OCXL_OK", buf |-> buf, count |-> max_count]
    IN  IF grown.rc # "OCXL_OK"
        THEN [rc |-> grown.rc, buf |-> buf, count |-> count, max_count |-> max_count,
              slot |-> -1]
        ELSE [rc |-> "OCXL_OK", buf |-> grown.buf,
              count |-> (count + 1) % (UINT16_MAX + 1),
              max_count |-> grown.count, slot |-> count]

irq_alloc_slot(g) ==
    /\ mem = "live"
    /\ afu.mmio_count = 0
    /\ afu.irq_count # afu.irq_max_count => g = "inplace"
    /\ \E r \in {next_slot(afu.irqs_buf, afu.irq_count, afu.irq_max_count,
                            INITIAL_IRQ_COUNT, g)} :
           /\ afu' = [afu EXCEPT !.irqs_buf = r.buf, !.irq_count = r.count,
                                 !.irq_max_count = r.max_count]
           /\ ret' = [op |-> "slot", kind |-> "irq", rc |-> r.rc, slot |-> r.slot]
    /\ trace' = << >>
    /\ UNCHANGED <<mem, heap, kern, pend, evq, hist, lib, thr, opens, dev, dead>>

register_mmio_slot(g) ==
    /\ mem = "live"
    /\ afu.irq_count = 0
    /\ afu.mmio_count # afu.mmio_max_count => g = "inplace"
    /\ \E r \in {next_slot(afu.mmios_buf, afu.mmio_count, afu.mmio_max_count,
                            INITIAL_MMIO_COUNT, g)} :
           /\ afu' = [afu EXCEPT !.mmios_buf = r.buf, !.mmio_count = r.count,
                                 !.mmio_max_count = r.max_count]
           /\ ret' = [op |-> "slot", kind |-> "mmio", rc |-> r.rc, slot |-> r.slot]
    /\ trace' = << >>
    /\ UNCHANGED <<mem, heap, kern, pend, evq, hist, lib, thr, opens, dev, dead>>

NextCount ==
    \/ OpenOk
    \/ \E g \in {"nomem", "inplace"} : irq_alloc_slot(g)
    \/ \E g \in {"nomem", "inplace"} : register_mmio_slot(g)

SpecCount == Init /\ [][NextCount]_vars

(***************************************************************************)
(* setup.c: the message sinks and ocxl_err_to_string; libocxl.h: ocxl_err. *)
(* `sources` is the set of the bits set in the argument.                   *)
(***************************************************************************)
Sources == SUBSET {"OCXL_ERRORS", "OCXL_TRACING"}

ocxl_enable_messages(sources) ==
    /\ lib' = [lib EXCEPT !.verbose_errors = "OCXL_ERRORS" \in sources,
                          !.tracing = "OCXL_TRACING" \in sources]
    /\ ret' = [op |-> "enable_messages", rc |-> "OCXL_OK", sources |-> sources]
    /\ trace' = << >>
    /\ UNCHANGED <<afu, mem, heap, kern, pend, evq, hist, thr, opens, dev, dead>>

\* The per-context switch: the flags of the context instead of the globals.
ocxl_afu_enable_messages(sources) ==
    /\ mem = "live"
    /\ afu' = [afu EXCEPT !.verbose_errors = "OCXL_ERRORS" \in sources,
                          !.tracing = "OCXL_TRACING" \in sources]
    /\ ret' = [op |-> "afu_enable_messages", rc |-> "OCXL_OK", sources |-> sources]
    /\ trace' = << >>
    /\ UNCHANGED <<mem, heap, kern, pend, evq, hist, lib, thr, opens, dev, dead>>

\* mmio.c, mmio_check: an access through a NULL region handle.
mmio_null_access(width) ==
    /\ ret' = [op |-> "mmio_null", rc |-> "OCXL_INVALID_ARGS", width |-> width]
    /\ trace' = errmsg(<< >>, "OCXL_INVALID_ARGS")
    /\ UNCHANGED <<afu, mem, heap, kern, pend, evq, hist, lib, thr, opens, dev, dead>>

ocxl_err ==
    [OCXL_OK |-> 0, OCXL_NO_MEM |-> -1, OCXL_NO_DEV |-> -2, OCXL_NO_CONTEXT |-> -3,
     OCXL_NO_IRQ |-> -4, OCXL_INTERNAL_ERROR |-> -5, OCXL_ALREADY_DONE |-> -6,
     OCXL_OUT_OF_BOUNDS |-> -7, OCXL_NO_MORE_CONTEXTS |-> -8, OCXL_INVALID_ARGS |-> -9]

ocxl_err_to_string(err) ==
    CASE err = ocxl_err.OCXL_OK -> "OK"
      [] err = ocxl_err.OCXL_NO_MEM -> "No memory"
      [] err = ocxl_err.OCXL_NO_CONTEXT -> "AFU context not available"
      [] err = ocxl_err.OCXL_NO_IRQ -> "AFU interrupt not available"
      [] err = ocxl_err.OCXL_INTERNAL_ERROR -> "Internal error"
      [] err = ocxl_err.OCXL_ALREADY_DONE -> "Already done"
      [] err = ocxl_err.OCXL_OUT_OF_BOUNDS -> "Out of bounds"
      [] err = ocxl_err.OCXL_NO_MORE_CONTEXTS -> "No more contexts"
      [] err = ocxl_err.OCXL_INVALID_ARGS -> "Invalid arguments"
      [] OTHER -> "Unknown error"

\* The arguments tried: the values of the enumeration, and two on each side.
ErrValues == (-11)..2

err_to_string(err) ==
    /\ ret' = [op |-> "err_to_string", err |-> err, str |-> ocxl_err_to_string(err)]
    /\ trace' = << >>
    /\ UNCHANGED <<afu, mem, heap, kern, pend, evq, hist, lib, thr, opens, dev, dead>>

NextMsgs ==
    \/ OpenOk
    \/ \E sources \in Sources : ocxl_enable_messages(sources)
    \/ \E sources \in Sources : ocxl_afu_enable_messages(sources)
    \/ \E type \in MmioTypes, size \in {0, 8}, offset \in MapOffsets, mok \in BOOLEAN,
          g \in GrowOutcomes :
           /\ Cardinality(Mapped(afu)) < MaxMmio
           /\ ocxl_mmio_map_advanced(type, size, offset, mok, g)
    \/ \E j \in 0..(MaxMmio - 1) : mmio_unmap(j)
    \/ \E j \in 0..(MaxMmio - 1), offset \in {0, 8}, width \in Widths :
           mmio_access(j, offset, width)
    \/ \E width \in Widths : mmio_null_access(width)
    \/ \E err \in ErrValues : err_to_string(err)

SpecMsgs == Init /\ [][NextMsgs]_vars

(***************************************************************************)
(* internal.c: libocxl_init, called by several threads.  A call is three   *)
(* steps: pthread_mutex_lock; the test of libocxl_inited and, if it is     *)
(* not set, the inspection of the environment; the assignment of           *)
(* libocxl_inited with pthread_mutex_unlock and the return.                *)
(***************************************************************************)
\* A lock that any thread gets at once.
mutex_free_always(m) == TRUE

\* pthread_mutex_lock returns when no thread holds the mutex.
mutex_free(m) == m = 0

\* val && (!strcasecmp(val, "yes") || !strcmp(val, "1"))
env_set(val) == val \in {"yes", "YES", "1"}

init_lock(t) ==
    /\ thr[t].pc = "idle"
    /\ mutex_free(lib.libocxl_inited_mutex)
    /\ lib' = [lib EXCEPT !.libocxl_inited_mutex = t]
    /\ thr' = [thr EXCEPT ![t].pc = "locked"]
    /\ UNCHANGED <<afu, mem, heap, kern, pend, evq, trace, ret, hist, opens, dev, dead>>

init_inspect(t) ==
    /\ thr[t].pc = "locked"
    /\ IF lib.libocxl_inited
       THEN /\ lib' = [lib EXCEPT !.libocxl_inited_mutex = 0]
            /\ thr' = [thr EXCEPT ![t].pc = "done"]
       ELSE /\ lib' = [lib EXCEPT
                          !.inspections = @ + 1,
                          !.tracing_all = @ \/ env_set(lib.env["LIBOCXL_TRACE_ALL"]),
                          !.tracing = @ \/ env_set(lib.env["LIBOCXL_TRACE_ALL"]),
                          !.verbose_errors_all =
                              @ \/ env_set(lib.env["LIBOCXL_VERBOSE_ERRORS_ALL"]),
                          !.verbose_errors =
                              @ \/ env_set(lib.env["LIBOCXL_VERBOSE_ERRORS_ALL"])]
            /\ thr' = [thr EXCEPT ![t].pc = "inspected"]
    /\ UNCHANGED <<afu, mem, heap, kern, pend, evq, trace, ret, hist, opens, dev, dead>>

init_return(t) ==
    /\ thr[t].pc = "inspected"
    /\ lib' = [lib EXCEPT !.libocxl_inited = TRUE, !.libocxl_inited_mutex = 0]
    /\ thr' = [thr EXCEPT ![t].pc = "done"]
    /\ UNCHANGED <<afu, mem, heap, kern, pend, evq, trace, ret, hist, opens, dev, dead>>

NextInit ==
    \/ \E t \in Threads : init_lock(t)
    \/ \E t \in Threads : init_inspect(t)
    \/ \E t \in Threads : init_return(t)

SpecInit ==
    /\ \E env \in [EnvVars -> EnvValues] : InitWith("little", env)
    /\ [][NextInit]_vars

(***************************************************************************)
(* Opening by path, or by name: the devices glob lists are tried in order. *)
(***************************************************************************)
NextOpen ==
    \/ \E cands \in CandidateLists : ocxl_afu_open_specific("match", cands)
    \/ \E glob \in GlobOutcomes \ {"match"} : ocxl_afu_open_specific(glob, << >>)
    \/ \E m \in PathOutcomes, glen \in GlobalLens, o \in OpenOutcomes :
          ocxl_afu_open_from_dev(m, glen, o)
    \/ \E m \in PathOutcomes, o \in OpenOutcomes, step \in UseSteps, freed_fd \in FreedReads :
          ocxl_afu_use_from_dev(m, o, step, freed_fd)
    \/ \E ok \in BOOLEAN : ocxl_afu_attach(ok)
    \/ \E field \in AfuGetters, junk \in BOOLEAN : ocxl_afu_get(field, junk)
    \/ \E freed_fd \in FreedReads : ocxl_afu_close(freed_fd)

SpecOpen == Init /\ [][NextOpen]_vars

(***************************************************************************)
(* Reads and writes of a mapped region, on a host of either byte order.    *)
(***************************************************************************)
InitRw == \E host \in Hosts : InitOn(host)

NextRw ==
    \/ OpenOk
    \/ \E mok \in BOOLEAN, g \in GrowOutcomes :
           /\ Cardinality(Mapped(afu)) < MaxMmio
           /\ ocxl_mmio_map_advanced("OCXL_GLOBAL_MMIO", 8, 0, mok, g)
    \/ \E j \in 0..(MaxMmio - 1) : mmio_unmap(j)
    \/ \E j \in 0..(MaxMmio - 1) : mmio_get_info(j)
    \/ \E j \in 0..(MaxMmio - 1), offset \in RwOffsets, width \in Widths, endian \in Endians :
           mmio_read(j, offset, width, endian)
    \/ \E j \in 0..(MaxMmio - 1), offset \in RwOffsets, width \in Widths, endian \in Endians :
           \E value \in Values(width) : mmio_write(j, offset, width, endian, value)

SpecRw == InitRw /\ [][NextRw]_vars

(***************************************************************************)
(* Three threads accessing one mapped region of 16 bytes.                  *)
(***************************************************************************)
NextThreads ==
    \/ OpenOk
    \/ /\ Cardinality(Mapped(afu)) < MaxMmio
       /\ ocxl_mmio_map_advanced("OCXL_GLOBAL_MMIO", 16, 0, TRUE, "moved")
    \/ \E t \in Threads, offset \in ThreadOffsets : thread_call(t, 0, offset)
    \/ \E t \in Threads : thread_access(t)
    \/ \E t \in Threads : thread_return(t)

SpecThreads == Init /\ [][NextThreads]_vars

(***************************************************************************)
(* A thread in ocxl_afu_event_check while the kernel queues records.  The  *)
(* thread is scheduled (weak fairness on its steps); the kernel queues no  *)
(* further record once the call has made MaxReads reads.                   *)
(***************************************************************************)
KernelQueues ==
    /\ thr[Waiter].pc # "idle" => thr[Waiter].reads < MaxReads
    /\ \E type \in KernelEventTypes : kernel_event(type)

NextWait ==
    \/ OpenOk
    \/ KernelQueues
    \/ \E timeout \in Timeouts : check_call(Waiter, timeout)
    \/ check_wait(Waiter)
    \/ \E fail \in BOOLEAN : check_read(Waiter, fail)

SpecWait ==
    /\ Init /\ [][NextWait]_vars
    /\ WF_vars(check_wait(Waiter))
    /\ WF_vars(\E fail \in BOOLEAN : check_read(Waiter, fail))

(***************************************************************************)
(* The event multiplexer on an open context with interrupts.               *)
(***************************************************************************)
NextEvents ==
    \/ OpenOk
    \/ \E info \in Infos : afu.irq_count < MaxIrqs /\ ocxl_irq_alloc(info, "moved", "none")
    \/ \E fd \in DOMAIN pend : irq_trigger(fd)
    \/ \E type \in KernelEventTypes : kernel_event(type)
    \/ \E event_count \in 0..MaxEventCount, mok \in BOOLEAN, failat \in 0..MaxQueue,
          ifail \in {{}} \cup {{fd} : fd \in DOMAIN pend} :
           ocxl_afu_event_check(event_count, mok, failat, ifail, "stale")

SpecEvents == Init /\ [][NextEvents]_vars

(***************************************************************************)
(* Translation faults: records queued on the context descriptor of a       *)
(* context without interrupts.                                             *)
(***************************************************************************)
NextFaults ==
    \/ OpenOk
    \/ \E type \in KernelEventTypes : kernel_event(type)
    \/ \E event_count \in 0..MaxEventCount, mok \in BOOLEAN, failat \in 0..MaxQueue :
           ocxl_afu_event_check(event_count, mok, failat, {}, "stale")

SpecFaults == Init /\ [][NextFaults]_vars

(***************************************************************************)
(* Events after the interrupt buffer has grown: MaxGrowIrqs interrupts are *)
(* allocated, the first and the last of them trigger.                      *)
(***************************************************************************)
NextGrow ==
    \/ OpenOk
    \/ \E info \in Infos, g \in {"inplace", "moved"} :
           afu.irq_count < MaxGrowIrqs /\ ocxl_irq_alloc(info, g, "none")
    \/ \E i \in {1, MaxGrowIrqs} :
           /\ afu.irq_count >= MaxGrowIrqs
           /\ irq_trigger(afu.irqs[i].eventfd)
    \/ \E dang \in DanglingReads :
           /\ afu.irq_count >= MaxGrowIrqs
           /\ ocxl_afu_event_check(MaxEventCount, TRUE, 0, {}, dang)

SpecGrow == Init /\ [][NextGrow]_vars

(***************************************************************************)
(* Properties.                                                             *)
(***************************************************************************)
TraceOps(name) == {i \in DOMAIN trace : trace[i][1] = name}
LiveCloseOk == ret.op = "close" /\ ret.rc = "OCXL_OK" /\ ret.live

\* C1: after ocxl_afu_close returns OCXL_OK on an open context nothing the
\* context acquired is still held: no mapping (region or notification page),
\* no kernel interrupt slot, and no descriptor besides the user-IRQ device's:
\* the wake descriptors, the epoll descriptor and the context descriptor are
\* closed.
C1_AllReleased ==
    LiveCloseOk =>
        /\ kern.maps = {}
        /\ kern.irqs = {}
        /\ kern.fds \subseteq {afu.irq_fd}

\* C2: of two ocxl_afu_close calls in succession on an opened context the
\* second, made on the handle the first one was given, returns
\* OCXL_ALREADY_DONE and issues no release: no close, no free.
C2_SecondCloseIsNoOp ==
    (ret.op = "close" /\ ~ret.live) =>
        /\ ret.rc = "OCXL_ALREADY_DONE"
        /\ trace = << >>

C7_ExactRollback ==
    (ret.op = "irq_alloc" /\ ret.rc # "OCXL_OK") =>
        /\ \A i \in TraceOps("eventfd") : \E j \in TraceOps("close") : trace[j][2] = trace[i][2]
        /\ \A i \in TraceOps("irq_alloc") : \E j \in TraceOps("irq_free") : trace[j][2] = trace[i][2]
        /\ \A i \in TraceOps("mmap") : \E j \in TraceOps("munmap") : trace[j][2] = trace[i][2]
        /\ \A j \in TraceOps("munmap") : trace[j][3]
        /\ \A j \in TraceOps("irq_free") : \E i \in TraceOps("irq_alloc") : trace[i][2] = trace[j][2]
        /\ afu.irq_count = Len(hist)

C9_SentinelForUnallocated ==
    (ret.op \in {"get_handle", "get_fd"} /\ ret.irq >= afu.irq_count) =>
        /\ ret.val = (IF ret.op = "get_handle" THEN 0 ELSE -1)
        /\ ret.read = -1

\* C10: an access of width w at `offset` of a mapped region of length L is
\* accepted (OCXL_OK) exactly when offset + w - 1 < L, and refused with
\* OCXL_OUT_OF_BOUNDS otherwise; so L - w is accepted, L - w + 1 refused.
C10_BoundsCheck ==
    (ret.op = "mmio" /\ afu.mmios[ret.slot + 1].start # NULL) =>
        LET L == afu.mmios[ret.slot + 1].length
        IN  /\ ret.rc = (IF ret.offset + ret.width - 1 < L THEN "OCXL_OK" ELSE "OCXL_OUT_OF_BOUNDS")
            /\ ret.offset = L - ret.width => ret.rc = "OCXL_OK"
            /\ ret.offset = L - ret.width + 1 => ret.rc = "OCXL_OUT_OF_BOUNDS"

\* The last offset that fits is accepted.
C10_Witness ==
    /\ ret.op = "mmio"
    /\ afu.mmios[ret.slot + 1].start # NULL
    /\ ret.offset = afu.mmios[ret.slot + 1].length - ret.width
    /\ ret.offset >= 0
    /\ ret.rc = "OCXL_OK"

\* C4: ocxl_afu_event_check writes at most event_count entries into the
\* caller's array and returns at most event_count, whatever sources are
\* ready and however many records are queued on the context descriptor.
C4_AtMostEventCount ==
    ret.op = "event_check" =>
        /\ Len(ret.events) <= ret.event_count
        /\ ret.val <= ret.event_count

\* What the caller learns from an entry of the array.
Reported(e) ==
    IF e.type = "OCXL_EVENT_IRQ"
    THEN [kind |-> "irq", key |-> e.irq, count |-> e.count]
    ELSE [kind |-> "fault", key |-> e.addr, count |-> 1]

\* C5: every trigger count read from a wake descriptor and every fault
\* record read from the context descriptor during ocxl_afu_event_check is
\* among the entries the call returns.  (The library keeps nothing it read
\* from one call to the next, so what a call does not return no later call
\* can.)
C5_NoEventLost ==
    ret.op = "event_check" =>
        ret.consumed \subseteq
            {Reported(ret.events[n]) : n \in {m \in DOMAIN ret.events : m <= ret.val}}

\* C6: each wake descriptor reported ready yields exactly one OCXL_EVENT_IRQ
\* entry, carrying the number, the handle and the info tag of the interrupt
\* that owns the descriptor, also after the interrupt buffer has grown.
C6_EventOfOwner ==
    (ret.op = "event_check" /\ ret.val >= 0) =>
        LET irqev == {m \in DOMAIN ret.events : ret.events[m].type = "OCXL_EVENT_IRQ"}
            wake == {n \in DOMAIN ret.ready : ret.ready[n].ptr # AfuSource}
        IN  /\ Cardinality(irqev) = Cardinality(wake)
            /\ \A n \in wake :
                   \A i \in {x \in 0..(afu.irq_count - 1) : afu.irqs[x + 1].eventfd = ret.ready[n].fd} :
                       /\ Cardinality({m \in irqev : ret.events[m].irq = i}) = 1
                       /\ \A m \in irqev : ret.events[m].irq = i =>
                              /\ ret.events[m].handle = ocxl_irq_get_handle(afu, i, 0).val
                              /\ ret.events[m].info = afu.irqs[i + 1].info

\* C16: ocxl_mmio_map_advanced with offset + size greater than the length
\* the context reports for the area asked for (size 0 standing for the rest
\* of the area from offset) returns OCXL_OUT_OF_BOUNDS, issues no mmap and
\* registers no region.
C16_MapOutOfBounds ==
    LET len == IF ret.type = "OCXL_GLOBAL_MMIO" THEN afu.global_len ELSE afu.pp_len
        size == IF ret.size = 0 THEN len - ret.offset ELSE ret.size
    IN  (ret.op = "map" /\ ret.offset + size > len) =>
            /\ ret.rc = "OCXL_OUT_OF_BOUNDS"
            /\ TraceOps("mmap") = {}
            /\ ret.slot = -1

\* C17: a map call for the per-PASID area made right after the open, before
\* any attach, returns OCXL_NO_CONTEXT, issues no system call and leaves the
\* context as it was; made right after an ocxl_afu_attach that returned
\* OCXL_OK it is not rejected with OCXL_NO_CONTEXT.
C17_PerPasidNeedsAttach ==
    [][(ret'.op = "map" /\ ret'.type = "OCXL_PER_PASID_MMIO") =>
           /\ ret.op = "open" =>
                  (ret'.rc = "OCXL_NO_CONTEXT" /\ trace' = << >> /\ afu' = afu /\ kern' = kern)
           /\ (ret.op = "attach" /\ ret.rc = "OCXL_OK") =>
                  ret'.rc # "OCXL_NO_CONTEXT"]_vars

\* C18: ocxl_afu_attach returns OCXL_NO_CONTEXT, without a request to the
\* kernel, on a context that is not opened; after OCXL_INTERNAL_ERROR the
\* context is not attached; after OCXL_OK it is recorded as attached; the
\* attach request is only ever issued on an open descriptor.
C18_AttachRecorded ==
    ret.op = "attach" =>
        /\ afu.fd = -1 => (ret.rc = "OCXL_NO_CONTEXT" /\ trace = << >>)
        /\ ret.rc = "OCXL_INTERNAL_ERROR" => ~afu.attached
        /\ ret.rc = "OCXL_OK" => afu.attached
        /\ \A i \in TraceOps("ioctl_attach") : trace[i][3]

\* The handle of slot j of the region buffer, and the region it points to.
Handle(j) == [buf |-> afu.mmios_buf, idx |-> j]
RegionOf(j) == afu.mmios[j + 1]
Accesses == {i \in DOMAIN trace : trace[i][1] # "sync"}

\* C11: through a region handle on which ocxl_mmio_unmap has been called,
\* ocxl_mmio_read32/read64/write32/write64 at any offset and in any
\* endianness return OCXL_INVALID_ARGS and make no memory access.
C11_UnmappedHandleRefused ==
    (ret.op \in {"read", "write"} /\ Handle(ret.slot) \in dead) =>
        /\ ret.rc = "OCXL_INVALID_ARGS"
        /\ Accesses = {}

\* C12: a handle that was unmapped stays invalid whatever is mapped later on
\* the context: a read, a write or ocxl_mmio_get_info through it returns
\* OCXL_INVALID_ARGS, reports no region and accesses no memory, also when a
\* later map call has put a region into the slot the handle points to.
C12_HandleStaysInvalid ==
    (/\ ret.op \in {"read", "write", "get_info"}
     /\ Handle(ret.slot) \in dead
     /\ RegionOf(ret.slot).start # NULL) =>
        /\ ret.rc = "OCXL_INVALID_ARGS"
        /\ trace = << >>
        /\ ret.op = "get_info" => ret.address = NULL

\* C13: a write of a value v of 4 or 8 bytes at an aligned offset that fits
\* in a mapped region returns OCXL_OK, and the read of the same width, at
\* the same offset, in the same endianness (big, little or host) that
\* follows it returns OCXL_OK and yields v.
C13_WriteThenRead ==
    (/\ ret.op = "write"
     /\ RegionOf(ret.slot).start # NULL
     /\ ret.offset % ret.width = 0
     /\ ret.offset + ret.width <= RegionOf(ret.slot).length) =>
        LET r == ocxl_mmio_read(RegionOf(ret.slot), ret.offset, ret.width, ret.endian, dev)
        IN  /\ ret.rc = "OCXL_OK"
            /\ r.rc = "OCXL_OK"
            /\ r.val = ret.val

\* A 64-bit little-endian write on a big-endian host.
C13_Witness ==
    /\ ret.op = "write" /\ ret.rc = "OCXL_OK"
    /\ ret.width = 8 /\ ret.endian = "OCXL_MMIO_LITTLE_ENDIAN"
    /\ dev.host = "big"
    /\ ocxl_mmio_read(RegionOf(ret.slot), ret.offset, 8, ret.endian, dev).val = ret.val

\* C14: a write stores the value in the byte order asked for, whatever the
\* host's: after a big-endian write the byte at the lowest address is the
\* most significant one (0x12 for 0x12345678) and so on upwards, after a
\* little-endian write it is the least significant one (0x78), and a
\* host-endian write stores the value as the host lays it out.
C14_RequestedByteOrder ==
    (ret.op = "write" /\ ret.rc = "OCXL_OK") =>
        LET w == ret.width
            msbFirst == \A i \in 1..w : dev.bytes[ret.offset + i] = ret.val[w + 1 - i]
            lsbFirst == \A i \in 1..w : dev.bytes[ret.offset + i] = ret.val[i]
        IN  /\ ret.endian = "OCXL_MMIO_BIG_ENDIAN" => msbFirst
            /\ ret.endian = "OCXL_MMIO_LITTLE_ENDIAN" => lsbFirst
            /\ ret.endian = "OCXL_MMIO_HOST_ENDIAN" =>
                   IF dev.host = "little" THEN lsbFirst ELSE msbFirst

\* 0x12345678 written big-endian on a little-endian host: 0x12 comes first.
C14_Witness ==
    /\ ret.op = "write" /\ ret.rc = "OCXL_OK"
    /\ ret.width = 4 /\ ret.endian = "OCXL_MMIO_BIG_ENDIAN"
    /\ dev.host = "little"
    /\ dev.bytes[ret.offset + 1] = 18
    /\ dev.bytes[ret.offset + 4] = 120

\* C15: a read or write that passed validation makes exactly one access to
\* the device, a load for a read and a store for a write, of the width asked
\* for, at start + offset, with a full memory barrier immediately before it
\* and immediately after it.
C15_OneAccessBetweenBarriers ==
    (ret.op \in {"read", "write"} /\ ret.rc = "OCXL_OK") =>
        /\ Len(trace) = 3
        /\ trace[1][1] = "sync"
        /\ trace[2][1] = Access(IF ret.op = "read" THEN "load" ELSE "store", ret.width)
        /\ trace[2][2] = RegionOf(ret.slot).start + ret.offset
        /\ trace[3][1] = "sync"

\* A validated 64-bit read.
C15_Witness ==
    /\ ret.op = "read" /\ ret.rc = "OCXL_OK" /\ ret.width = 8
    /\ Cardinality(Accesses) = 1

\* The fault records of a queue and the fault entries of an event array, in
\* order.
RECURSIVE Faults(_)
Faults(q) ==
    IF q = << >> THEN << >>
    ELSE IF Head(q).type = OCXL_AFU_EVENT_XSL_FAULT_ERROR
    THEN <<Head(q).addr>> \o Faults(Tail(q))
    ELSE Faults(Tail(q))
RECURSIVE FaultEvents(_)
FaultEvents(es) ==
    IF es = << >> THEN << >>
    ELSE IF Head(es).type = "OCXL_EVENT_TRANSLATION_FAULT"
    THEN <<[addr |-> Head(es).addr, count |-> Head(es).count]>> \o FaultEvents(Tail(es))
    ELSE FaultEvents(Tail(es))
AfuReported == \E n \in DOMAIN ret.ready : ret.ready[n].ptr = AfuSource

C20_FailureIsMinusOne ==
    ret.op = "event_check" =>
        /\ (ret.fail \in {"epoll_wait", "read"} \/ ret.irq_failed # {}) => ret.val = -1
        /\ (ret.fail = "none" /\ ret.irq_failed = {}) => ret.val >= 0

(***************************************************************************)
(* Opening by name.                                                        *)
(***************************************************************************)
\* A listed device whose open meets ENOSPC, and one that opens.
Exhausted(c) == c.m = "ok" /\ c.o = "enospc"
Opens(c) == c.m = "ok" /\ c.o = "ok"
ByName == ret.op = "open_specific"

\* C21: ocxl_afu_open_specific tries the listed devices in order and skips
\* those whose open reports OCXL_NO_MORE_CONTEXTS: when every device before
\* device n is exhausted and device n opens, the call returns OCXL_OK with a
\* handle for device n, having tried the devices 1..n in that order.
C21_SkipsExhausted ==
    (ByName /\ ret.glob = "match") =>
        \A n \in DOMAIN ret.cands :
            ((\A i \in 1..(n - 1) : Exhausted(ret.cands[i])) /\ Opens(ret.cands[n]))
            => /\ ret.rc = "OCXL_OK"
               /\ ret.handle # OCXL_INVALID_AFU
               /\ ret.path = n
               /\ ret.tried = [i \in 1..n |-> IF i < n THEN "OCXL_NO_MORE_CONTEXTS" ELSE "OCXL_OK"]
C21_Witness ==
    /\ ByName /\ ret.glob = "match" /\ Len(ret.cands) = 2
    /\ Exhausted(ret.cands[1]) /\ Opens(ret.cands[2])
    /\ ret.rc = "OCXL_OK" /\ ret.path = 2

\* C22: ocxl_afu_open_specific returns OCXL_NO_MORE_CONTEXTS exactly when
\* at least one device matches and the open of every matching device
\* returned OCXL_NO_MORE_CONTEXTS.
C22_ExhaustedIffAll ==
    ByName =>
        (ret.rc = "OCXL_NO_MORE_CONTEXTS"
         <=> /\ ret.glob = "match"
             /\ Len(ret.cands) >= 1
             /\ Len(ret.tried) = Len(ret.cands)
             /\ \A i \in DOMAIN ret.cands :
                    Exhausted(ret.cands[i]) /\ ret.tried[i] = "OCXL_NO_MORE_CONTEXTS")
C22_Witness ==
    /\ ByName /\ ret.rc = "OCXL_NO_MORE_CONTEXTS"
    /\ Len(ret.cands) = 2 /\ Len(ret.tried) = 2

\* C23: when no device matches, ocxl_afu_open_specific (ocxl_afu_open)
\* returns OCXL_NO_DEV; and whenever an open returns anything but OCXL_OK,
\* the handle it leaves the caller is OCXL_INVALID_AFU.
C23_NoMatchNoHandle ==
    /\ (ByName /\ ret.glob = "nomatch") => ret.rc = "OCXL_NO_DEV"
    /\ (ret.op \in {"open", "open_specific"} /\ ret.rc # "OCXL_OK")
       => ret.handle = OCXL_INVALID_AFU
C23_Witness ==
    /\ ByName /\ ret.glob = "nomatch"
    /\ ret.rc = "OCXL_NO_DEV" /\ ret.handle = OCXL_INVALID_AFU

\* C24: a failed open leaves nothing behind.  When ocxl_afu_open_from_dev
\* or ocxl_afu_open_specific returns anything but OCXL_OK, every AFU
\* structure allocated during the call has been freed and no descriptor
\* opened during the call is still open.
C24_FailedOpenLeavesNothing ==
    (ret.op \in {"open", "open_specific"} /\ ret.rc # "OCXL_OK")
    => ret.leaked = 0 /\ ret.fds_left = {}

\* C27: when afu_open fails, at whichever step, the context is left closed:
\* its descriptor field is -1 when afu_open returns, and after the
\* ocxl_afu_close that follows every descriptor the call opened has been
\* closed exactly once: none is still open and no close was issued on a
\* descriptor already closed.
C27_FailedOpenLeftClosed ==
    (ret.op = "open" /\ ret.rc # "OCXL_OK")
    => /\ ret.fd = -1
       /\ ret.fds_left = {}
       /\ \A i \in DOMAIN trace : trace[i][1] = "close" => trace[i][3]

\* The number of times the call freed the AFU structure.
HandleFrees ==
    Cardinality({i \in DOMAIN trace : trace[i][1] = "free" /\ trace[i][2] = "afu"})

\* C28: whichever step of ocxl_afu_use_from_dev fails after the structure
\* was allocated (the open, the attach, the global map, the per-context
\* map), the context is closed and its handle freed exactly once: not zero
\* times and not twice.
C28_UseFailureFreesOnce ==
    (ret.op = "use" /\ ret.rc # "OCXL_OK" /\ ret.m = "ok")
    => /\ HandleFrees = 1
       /\ \A i \in DOMAIN trace : trace[i][1] \in {"free", "close"} => trace[i][3]

\* C26: after the first ocxl_afu_close of an opened context the getters
\* return the defaults: ocxl_afu_get_fd returns -1 and the MMIO size
\* getters return 0.
C26_GettersAfterClose ==
    (ret.op = "get" /\ ~ret.live)
    => ret.val = (IF ret.field = "fd" THEN -1 ELSE 0)

\* C29: a kernel record of a type the library does not know is consumed
\* and produces no entry.  After an ocxl_afu_event_check whose reads succeed
\* and to which the context descriptor was reported ready, the count
\* returned and the entries written are those of the fault records alone,
\* no unknown record is left on the queue, and every fault record queued
\* behind an unknown one has been reported.
Unknown(rec) == rec.type > OCXL_AFU_EVENT_XSL_FAULT_ERROR
C29_UnknownRecordIgnored ==
    (ret.op = "event_check" /\ ret.fail = "none" /\ AfuReported) =>
        /\ ret.val = Len(Faults(ret.queued))
        /\ Len(ret.events) = ret.val
        /\ \A i \in DOMAIN ret.left : ~Unknown(ret.left[i])
        /\ \A i \in DOMAIN ret.queued : \A j \in DOMAIN ret.queued :
               (Unknown(ret.queued[i]) /\ j > i /\ ~Unknown(ret.queued[j]))
               => \E n \in DOMAIN ret.events :
                      /\ ret.events[n].type = "OCXL_EVENT_TRANSLATION_FAULT"
                      /\ ret.events[n].addr = ret.queued[j].addr
C29_Witness ==
    /\ ret.op = "event_check" /\ ret.fail = "none" /\ AfuReported
    /\ Len(ret.queued) = 2
    /\ Unknown(ret.queued[1]) /\ ~Unknown(ret.queued[2])
    /\ ret.val = 1
    /\ ret.events[1].addr = ret.queued[2].addr
    /\ ret.left = << >>

\* C25: two threads writing at the same time to different offsets of one
\* region both return OCXL_OK and, however their steps interleave, each
\* register holds exactly the value written to it; a read made at the same
\* time at a third offset returns that offset's unchanged value.
Started(t) == thr[t].pc # "idle"
Done(t) == thr[t].pc = "done"
InBounds(t) == thr[t].offset + 4 <= RegionOf(0).length
C25_ConcurrentWritesKeepApart ==
    /\ \A t \in Writers :
           (Done(t) /\ InBounds(t)
            /\ \A u \in Writers \ {t} : Started(u) => thr[u].offset # thr[t].offset)
           => /\ thr[t].rc = "OCXL_OK"
              /\ load(dev, thr[t].offset, 4) = ThreadValue(t)
    /\ \A t \in Threads \ Writers :
           (Done(t) /\ InBounds(t)
            /\ \A u \in Writers : Started(u) => thr[u].offset # thr[t].offset)
           => /\ thr[t].rc = "OCXL_OK"
              /\ thr[t].val = load([dev EXCEPT !.bytes = DevBytes], thr[t].offset, 4)
C25_Witness ==
    /\ \A t \in Threads : Done(t) /\ thr[t].rc = "OCXL_OK"
    /\ thr[1].offset = 0 /\ thr[2].offset = 4 /\ thr[3].offset = 8
    /\ load(dev, 0, 4) = ThreadValue(1) /\ load(dev, 4, 4) = ThreadValue(2)
    /\ thr[3].val = <<0, 0, 0, 0>>

\* C30: ocxl_afu_event_check with a timeout >= 0 always returns; with a
\* timeout of 0 it returns without blocking; and the drain loop ends as soon
\* as a record carries `last`, the descriptor reports EAGAIN or a read
\* fails: while the thread is still in the loop, every read so far returned
\* a record without `last`.
C30_EventCheckReturns ==
    /\ (thr[Waiter].pc # "idle") ~> (thr[Waiter].pc = "done")
    /\ [](thr[Waiter].pc = "blocked" => thr[Waiter].timeout > 0)
    /\ []((thr[Waiter].pc = "drain" /\ thr[Waiter].reads > 0)
          => (thr[Waiter].action \in {"SUCCESS", "IGNORE"} /\ ~thr[Waiter].last))
C30_Witness ==
    /\ thr[Waiter].pc = "done"
    /\ thr[Waiter].reads = 2
    /\ thr[Waiter].last
    /\ thr[Waiter].val = 1

(***************************************************************************)
(* Region handles and the region buffer.                                   *)
(***************************************************************************)
MapOk == ret'.op = "map" /\ ret'.rc = "OCXL_OK" /\ trace' # << >> /\ afu' # afu

\* C31: a handle returned by a successful map keeps denoting its region
\* until it is unmapped, across later map calls, those that grow the region
\* buffer included: a successful map leaves every region that is mapped
\* where its handle points, i.e. the buffer at its address and the slot
\* with its base address, length and type.
C31_HandleKeepsRegion ==
    [][MapOk => \A j \in Mapped(afu) :
                   /\ afu'.mmios_buf = afu.mmios_buf
                   /\ afu'.mmios[j + 1] = afu.mmios[j + 1]]_vars

FreeSlots(a) == {j \in 0..(a.mmio_count - 1) : a.mmios[j + 1].start = NULL}

MapFailedAfterMmap ==
    /\ ret'.op = "map" /\ ret'.rc # "OCXL_OK"
    /\ Len(trace') > 0 /\ trace'[1][1] = "mmap" /\ trace'[1][3]

\* C40: a successful map puts the region in the lowest-indexed slot whose
\* region is unmapped when there is one and leaves the number of slots as it
\* is; only otherwise does it append a slot, so that the number of slots
\* grows only to the number of regions mapped at that moment.  A map whose
\* registration fails unmaps the mapping it has just created and leaves the
\* slots, their count and the capacity unchanged.
C40_LowestFreeSlot ==
    [][/\ MapOk =>
           /\ FreeSlots(afu) # {} =>
                  /\ ret'.slot = Min(FreeSlots(afu))
                  /\ afu'.mmio_count = afu.mmio_count
           /\ FreeSlots(afu) = {} =>
                  /\ ret'.slot = afu.mmio_count
                  /\ afu'.mmio_count = afu.mmio_count + 1
                  /\ Cardinality(Mapped(afu')) = afu'.mmio_count
           /\ afu'.mmios[ret'.slot + 1].start \in kern'.maps \ kern.maps
           /\ \A j \in 0..(afu.mmio_count - 1) :
                  j # ret'.slot => afu'.mmios[j + 1] = afu.mmios[j + 1]
       /\ MapFailedAfterMmap =>
           /\ trace' = <<trace'[1], <<"munmap", trace'[1][2], TRUE>> >>
           /\ kern'.maps = kern.maps
           /\ afu' = afu]_vars

C40_Witness ==
    /\ ret.op = "map" /\ ret.rc = "OCXL_OK"
    /\ ret.slot + 2 < afu.mmio_count
    /\ Mapped(afu) # 0..(afu.mmio_count - 1)

\* C32: an MMIO read or write that returns OCXL_OK touches only bytes of
\* its region: the bytes offset .. offset + width - 1 it transfers lie in
\* 0 .. length - 1, whatever the sign of the offset and however short the
\* region.
C32_AccessInsideRegion ==
    (ret.op = "mmio" /\ ret.rc = "OCXL_OK") =>
        /\ ret.offset >= 0
        /\ ret.offset + ret.width <= afu.mmios[ret.slot + 1].length

AreaLength(type) == IF type = "OCXL_GLOBAL_MMIO" THEN afu.global_len ELSE afu.pp_len

\* C33: ocxl_mmio_map_advanced with size 0 maps the bytes of the area from
\* the offset to its end, length - offset of them; with size 0 and an
\* offset beyond the end of the area it fails without issuing a mapping
\* call to the kernel.
C33_SizeZeroMapsRest ==
    (ret.op = "map" /\ ret.size = 0) =>
        /\ ret.rc = "OCXL_OK" =>
               afu.mmios[ret.slot + 1].length = AreaLength(ret.type) - ret.offset
        /\ ret.offset > AreaLength(ret.type) =>
               /\ ret.rc # "OCXL_OK"
               /\ trace = << >>

\* C36: ocxl_mmio_unmap is idempotent.  A call on a handle whose region is
\* mapped and on which it was not called before issues one munmap, of the
\* region, and sets its base address to NULL; a call on a handle on which
\* it was called before issues no munmap and changes nothing.
C36_UnmapIdempotent ==
    [][ret'.op = "unmap" =>
          LET j == ret'.slot
              h == [buf |-> afu.mmios_buf, idx |-> j]
          IN  /\ (h \notin dead /\ afu.mmios[j + 1].start # NULL) =>
                     /\ trace' = << <<"munmap", afu.mmios[j + 1].start, TRUE>> >>
                     /\ afu' = [afu EXCEPT !.mmios[j + 1].start = NULL]
              /\ h \in dead =>
                     /\ trace' = << >>
                     /\ afu' = afu
                     /\ kern' = kern]_vars

(***************************************************************************)
(* The 16-bit counters of the growable buffers.                            *)
(***************************************************************************)
Larger(x, y) == IF x > y THEN x ELSE y

GrowsTo(old, new, initial_count) ==
    /\ new = Larger(2 * old, initial_count)
    /\ new > old

\* C34: when a buffer is full, grow_buffer sets its capacity to the larger
\* of twice the old capacity and the initial batch (64 interrupts, 4
\* regions), and the capacity recorded is strictly greater than the old
\* one; when the allocation fails the buffer and the capacity are unchanged.
C34_CapacityGrows ==
    [][ret'.op = "slot" =>
          /\ (ret'.kind = "irq" /\ afu.irq_count = afu.irq_max_count) =>
                 IF ret'.rc = "OCXL_OK"
                 THEN GrowsTo(afu.irq_max_count, afu'.irq_max_count, INITIAL_IRQ_COUNT)
                 ELSE afu' = afu
          /\ (ret'.kind = "mmio" /\ afu.mmio_count = afu.mmio_max_count) =>
                 IF ret'.rc = "OCXL_OK"
                 THEN GrowsTo(afu.mmio_max_count, afu'.mmio_max_count, INITIAL_MMIO_COUNT)
                 ELSE afu' = afu]_vars

\* C35: in every reachable state irq_count <= irq_max_count and
\* mmio_count <= mmio_max_count, and the slot an allocation has written
\* lies inside the buffer, for any number of allocations.
C35_CountWithinCapacity ==
    /\ afu.irq_count <= afu.irq_max_count
    /\ afu.mmio_count <= afu.mmio_max_count
    /\ (ret.op = "slot" /\ ret.rc = "OCXL_OK") =>
           ret.slot < (IF ret.kind = "irq" THEN afu.irq_max_count ELSE afu.mmio_max_count)

(***************************************************************************)
(* The initialisation of the library.                                      *)
(***************************************************************************)
\* C37: whatever the number of threads calling libocxl_init at the same
\* time, the environment is inspected at most once, and when a call has
\* returned the initialisation is complete: the environment has been
\* inspected, libocxl_inited is set and the flags are what the environment
\* asks for.
C37_InitOnce ==
    /\ lib.inspections <= 1
    /\ \A t \in Threads : thr[t].pc = "done" =>
           /\ lib.libocxl_inited
           /\ lib.inspections = 1
           /\ lib.tracing_all = env_set(lib.env["LIBOCXL_TRACE_ALL"])
           /\ lib.verbose_errors_all = env_set(lib.env["LIBOCXL_VERBOSE_ERRORS_ALL"])

C37_Witness ==
    /\ \A t \in Threads : thr[t].pc = "done"
    /\ lib.inspections = 1
    /\ lib.verbose_errors_all /\ ~lib.tracing_all

(***************************************************************************)
(* Messages.                                                               *)
(***************************************************************************)
Messages == {"error_handler", "afu_error_handler", "trace_message"}
IsCall(e) == e[1] \notin Messages
Quiet(a) == [a EXCEPT !.verbose_errors = FALSE, !.tracing = FALSE]

SameOutcome(r, q) ==
    /\ r.rc = q.rc
    /\ r.slot = q.slot
    /\ Quiet(r.s.afu) = q.s.afu
    /\ r.s.kern = q.s.kern
    /\ SelectSeq(r.s.trace, IsCall) = q.s.trace

C39_EveryErrorDescribed ==
    ret.op = "err_to_string" =>
        /\ ret.str = "Unknown error" <=> \A name \in DOMAIN ocxl_err : ocxl_err[name] # ret.err
        /\ \A name \in DOMAIN ocxl_err :
               ocxl_err[name] # ret.err => ocxl_err_to_string(ocxl_err[name]) # ret.str

====
